---------------------------- MODULE Spec2Model ----------------------------
(***************************************************************************)
(* A model of the normalization, matching and risk-analytics engine of the *)
(* GPU price monitoring ETL (src/etl).                                     *)
(*                                                                         *)
(* Texts are sequences of characters.  A character is a one-character      *)
(* string; a character outside ASCII is written by its code point, e.g.    *)
(* "U+AE30", because module text is ASCII.  The alphabet is ASCII, the     *)
(* Hangul syllables of the lexicons and the letters outside ASCII that     *)
(* re.IGNORECASE takes for a letter of the patterns.                       *)
(***************************************************************************)
EXTENDS Integers, Sequences, FiniteSets, TLC

VARIABLES
    raw_text,        \* product_name handed to ProductNormalizer.normalize
    used,            \* the fragments raw_text was assembled from, in order
    norm_result,     \* outcome of the last normalize(raw_text) call, or NoCall
    signals,         \* the MarketSignal list of the current collection run
    now,             \* datetime.now(), in ticks of the clock
    price_logs,      \* rows of the price_logs table
    market_signals,  \* rows of the market_signals table
    threshold,       \* RiskCalculator.threshold, in hundredths
    products,        \* rows of the products table, which the loader writes
    skus,            \* rows of the skus table, which SKUMatcher reads
    outage,          \* the statements that fail, each named by the function issuing it
    ret,             \* outcome of the last call of a method, or NoCall
    risk_alerts,     \* rows inserted into the risk_alerts table, with the logged message
    signal_job,      \* the signals a running market-signal loader has still to insert, or NoJob
    price_job,       \* position and locals of a running product, price or alert loader, or NoJob
    match_job        \* position and locals of a running match_or_suggest or batch_match, or NoJob

normVars == <<raw_text, used, norm_result>>
storeVars == <<now, price_logs, market_signals, threshold, products, skus, outage>>
alertVars == <<risk_alerts>>
jobVars == <<signal_job, price_job, match_job>>
vars == <<raw_text, used, norm_result, signals, now, price_logs, market_signals,
          threshold, products, skus, outage, ret, risk_alerts, signal_job,
          price_job, match_job>>

NoCall == [status |-> "none"]
NoJob == [pc |-> "idle"]

\* The outcome of a call: the exception raised, or the value returned.
Raised(op, error) == [status |-> "error", op |-> op, error |-> error]

Returned(op, value) == [status |-> "ok", op |-> op, value |-> value]

\* A method of the core may be called when no call has returned since the
\* store last changed, or to repeat the call that returned last: the same
\* method with the same arguments.
Callable(op, args) ==
    IF ret = NoCall THEN TRUE
    ELSE ret.op = op /\ \A name \in DOMAIN args : ret[name] = args[name]

(***************************************************************************)
(* Characters: str.lower, str.upper, \w, \s, \d and re.IGNORECASE.         *)
(***************************************************************************)
UpperChars == <<"A", "B", "C", "D", "E", "F", "G", "H", "I", "J", "K", "L", "M",
                "N", "O", "P", "Q", "R", "S", "T", "U", "V", "W", "X", "Y", "Z">>

LowerChars == <<"a", "b", "c", "d", "e", "f", "g", "h", "i", "j", "k", "l", "m",
                "n", "o", "p", "q", "r", "s", "t", "u", "v", "w", "x", "y", "z">>

DigitChars == {"0", "1", "2", "3", "4", "5", "6", "7", "8", "9"}

\* The Hangul syllables of the lexicons (all inside the range U+AC00-U+D7A3).
HangulChars == {"U+AE30", "U+AC00", "U+BC14", "U+C774", "U+D2B8", "U+D314",
                "U+B9BF", "U+C5E0", "U+D14D", "U+C624", "U+BC84", "U+D074",
                "U+B7ED", "U+C9C0", "U+D3EC", "U+C2A4"}

\* The letters outside ASCII that re.IGNORECASE matches with a letter of the
\* patterns: the dotted capital I and the dotless small i (with I and i),
\* the long s (with S and s) and the Kelvin sign (with K and k).
DottedI == "U+0130"
DotlessI == "U+0131"
LongS == "U+017F"
KelvinSign == "U+212A"
FoldedChars == {DottedI, DotlessI, LongS, KelvinSign}

\* The combining dot above, which str.lower leaves after the i of a dotted
\* capital I; no letter, and no character of \w.
CombiningDot == "U+0307"

UpperSet == {UpperChars[i] : i \in 1..26}
LowerSet == {LowerChars[i] : i \in 1..26}

\* str.lower and str.upper, character by character, as tables.
LowerOf == [c \in UpperSet |-> LowerChars[CHOOSE i \in 1..26 : UpperChars[i] = c]]
UpperOf == [c \in LowerSet |-> UpperChars[CHOOSE i \in 1..26 : LowerChars[i] = c]]

IsUpper(c) == c \in UpperSet
IsLower(c) == c \in LowerSet

\* str.lower of a character other than the dotted capital I, and str.upper
\* of a character; the dotless small i and the long s have the capitals I
\* and S, the dotted capital I and the Kelvin sign are capitals.
ToLower(c) == IF c \in UpperSet THEN LowerOf[c] ELSE IF c = KelvinSign THEN "k" ELSE c
ToUpper(c) == IF c \in LowerSet THEN UpperOf[c] ELSE IF c = DotlessI THEN "I" ELSE IF c = LongS THEN "S" ELSE c

IsDigit(c) == c \in DigitChars
\* The ASCII characters that \s, str.split() and str.strip() take for
\* whitespace: the blank, \t \n \v \f \r and the separators 0x1C to 0x1F.
\* Control characters without an escape are written by their code point.
WhitespaceChars == {" ", "\t", "\n", "U+000B", "\f", "\r", "U+001C", "U+001D", "U+001E", "U+001F"}

IsSpace(c) == c \in WhitespaceChars
IsHangul(c) == c \in HangulChars

\* \w of a str pattern: Unicode letters and digits, and the underscore.
WordChars == UpperSet \cup LowerSet \cup DigitChars \cup {"_"} \cup HangulChars \cup FoldedChars
IsWordChar(c) == c \in WordChars

\* One pattern character p against one text character c under re.IGNORECASE.
\* The letter a character is taken for by re.IGNORECASE.
Fold(c) == IF c \in {DottedI, DotlessI} THEN "i" ELSE IF c = LongS THEN "s" ELSE ToLower(c)

EqIgnoreCase(c, p) == Fold(c) = Fold(p)

RECURSIVE LowerFrom(_, _)
\* str.lower from the i-th character on: the dotted capital I becomes an i
\* and a combining dot.
LowerFrom(s, i) ==
    IF i > Len(s) THEN <<>>
    ELSE (IF s[i] = DottedI THEN <<"i", CombiningDot>> ELSE <<ToLower(s[i])>>) \o LowerFrom(s, i + 1)

LowerStr(s) ==
    IF \A i \in 1..Len(s) : s[i] # DottedI THEN [i \in 1..Len(s) |-> ToLower(s[i])]
    ELSE LowerFrom(s, 1)

UpperStr(s) == [i \in 1..Len(s) |-> ToUpper(s[i])]

\* str.capitalize: first character upper (title) case, the rest lower case.
Capitalize(w) == IF w = <<>> THEN <<>> ELSE <<ToUpper(w[1])>> \o LowerStr(Tail(w))

(***************************************************************************)
(* The regular expressions of ProductNormalizer, matched as re does:       *)
(* leftmost start, alternatives in their written order, backtracking into  *)
(* the next alternative when the closing \b fails.                         *)
(***************************************************************************)
NoMatch == [start |-> 0, end |-> 0]

\* \b at the gap before s[i] (i in 1..Len(s)+1).
WordBoundary(s, i) ==
    LET before == i > 1 /\ IsWordChar(s[i - 1])
        after == i <= Len(s) /\ IsWordChar(s[i])
    IN  before # after

RECURSIVE MatchLiteral(_, _, _, _)
\* lit[k..] matches s from position i on: the position after the match, else 0.
MatchLiteral(s, i, lit, k) ==
    IF k > Len(lit) THEN i
    ELSE IF i > Len(s) THEN 0
    ELSE IF ~EqIgnoreCase(s[i], lit[k]) THEN 0
    ELSE MatchLiteral(s, i + 1, lit, k + 1)

RECURSIVE SkipSpaces(_, _)
SkipSpaces(s, i) == IF i <= Len(s) /\ IsSpace(s[i]) THEN SkipSpaces(s, i + 1) ELSE i

RECURSIVE SkipDigits(_, _)
SkipDigits(s, i) == IF i <= Len(s) /\ IsDigit(s[i]) THEN SkipDigits(s, i + 1) ELSE i

RECURSIVE MatchWords(_, _, _, _)
\* words[w], \s+, words[w+1], \s+, ... from position i on.
MatchWords(s, i, words, w) ==
    LET e == MatchLiteral(s, i, words[w], 1)
    IN  IF e = 0 THEN 0
        ELSE IF w = Len(words) THEN e
        ELSE LET j == SkipSpaces(s, e)
             IN  IF j = e THEN 0 ELSE MatchWords(s, j, words, w + 1)

RECURSIVE MatchAltAt(_, _, _, _, _)
\* (alts[a]|alts[a+1]|...) anchored at position i, followed by \b when wb.
MatchAltAt(s, i, alts, a, wb) ==
    IF a > Len(alts) THEN 0
    ELSE LET e == MatchWords(s, i, alts[a], 1)
         IN  IF e # 0 /\ (wb => WordBoundary(s, e)) THEN e
             ELSE MatchAltAt(s, i, alts, a + 1, wb)

\* The pattern anchored at position i: \b(alt|alt|...)\b when wb, the bare
\* alternation otherwise.  The position after the match, else 0.
MatchAt(s, i, alts, wb) ==
    IF wb /\ ~WordBoundary(s, i) THEN 0 ELSE MatchAltAt(s, i, alts, 1, wb)

RECURSIVE SearchFrom(_, _, _, _)
SearchFrom(s, i, alts, wb) ==
    IF i > Len(s) THEN NoMatch
    ELSE LET e == MatchAt(s, i, alts, wb)
         IN  IF e # 0 THEN [start |-> i, end |-> e]
             ELSE SearchFrom(s, i + 1, alts, wb)

\* pattern.search(s): the leftmost match.
Search(s, alts, wb) == SearchFrom(s, 1, alts, wb)

Group(s, m) == SubSeq(s, m.start, m.end - 1)

RECURSIVE RemoveAllFrom(_, _, _, _)
RemoveAllFrom(s, i, alts, wb) ==
    IF i > Len(s) THEN <<>>
    ELSE LET e == MatchAt(s, i, alts, wb)
         IN  IF e # 0 THEN RemoveAllFrom(s, e, alts, wb)
             ELSE <<s[i]>> \o RemoveAllFrom(s, i + 1, alts, wb)

\* re.sub(pattern, '', s): every non-overlapping match removed, left to right.
RemoveAll(s, alts, wb) == RemoveAllFrom(s, 1, alts, wb)

\* (\d+)\s*GB anchored at position i: [digits_end, end], end = 0 for no match.
\* \d+ is greedy and what follows it is no digit, so only the whole run of
\* digits can match.
MatchVramAt(s, i) ==
    LET d == SkipDigits(s, i)
        e == IF d = i THEN 0 ELSE MatchLiteral(s, SkipSpaces(s, d), <<"G", "B">>, 1)
    IN  [digits_end |-> d, end |-> e]

RECURSIVE SearchVramFrom(_, _)
SearchVramFrom(s, i) ==
    IF i > Len(s) THEN [start |-> 0, digits_end |-> 0, end |-> 0]
    ELSE LET m == MatchVramAt(s, i)
         IN  IF m.end # 0 THEN [start |-> i, digits_end |-> m.digits_end, end |-> m.end]
             ELSE SearchVramFrom(s, i + 1)

RECURSIVE RemoveVramFrom(_, _)
RemoveVramFrom(s, i) ==
    IF i > Len(s) THEN <<>>
    ELSE LET m == MatchVramAt(s, i)
         IN  IF m.end # 0 THEN RemoveVramFrom(s, m.end)
             ELSE <<s[i]>> \o RemoveVramFrom(s, i + 1)

RECURSIVE SplitFrom(_, _, _)
\* str.split(): the maximal runs of non-whitespace, cur being the run so far.
SplitFrom(s, i, cur) ==
    IF i > Len(s) THEN (IF cur = <<>> THEN <<>> ELSE <<cur>>)
    ELSE IF IsSpace(s[i])
         THEN (IF cur = <<>> THEN <<>> ELSE <<cur>>) \o SplitFrom(s, i + 1, <<>>)
         ELSE SplitFrom(s, i + 1, Append(cur, s[i]))

Split(s) == SplitFrom(s, 1, <<>>)

RECURSIVE JoinFrom(_, _)
JoinFrom(words, w) ==
    IF w > Len(words) THEN <<>>
    ELSE IF w = Len(words) THEN words[w]
    ELSE words[w] \o <<" ">> \o JoinFrom(words, w + 1)

\* ' '.join(words)
Join(words) == JoinFrom(words, 1)

\* s.strip() == ''
IsBlank(s) == \A i \in 1..Len(s) : IsSpace(s[i])

(***************************************************************************)
(* ProductNormalizer (src/etl/transformers/product_normalizer.py).         *)
(***************************************************************************)
RTX_4070_VARIANTS == <<
    <<"R", "T", "X", " ", "4", "0", "7", "0", " ", "T", "i", " ", "S", "u", "p", "e", "r">>,
    <<"R", "T", "X", " ", "4", "0", "7", "0", " ", "S", "u", "p", "e", "r">>,
    <<"R", "T", "X", " ", "4", "0", "7", "0", " ", "T", "i">>,
    <<"R", "T", "X", " ", "4", "0", "7", "0">>
>>

\* BRANDS in the order of the class attribute; each brand is one alternative
\* of _brand_pattern (an alternative is a sequence of words joined by \s+).
BRANDS == <<
    <<<<"A", "S", "U", "S">>>>,
    <<<<"M", "S", "I">>>>,
    <<<<"G", "I", "G", "A", "B", "Y", "T", "E">>>>,
    <<<<"U+AE30", "U+AC00", "U+BC14", "U+C774", "U+D2B8">>>>,
    <<<<"Z", "O", "T", "A", "C">>>>,
    <<<<"P", "A", "L", "I", "T">>>>,
    <<<<"U+D314", "U+B9BF">>>>,
    <<<<"G", "A", "L", "A", "X">>>>,
    <<<<"G", "A", "I", "N", "W", "A", "R", "D">>>>,
    <<<<"U+C774", "U+C5E0", "U+D14D">>>>,
    <<<<"E", "M", "T", "E", "K">>>>,
    <<<<"P", "N", "Y">>>>,
    <<<<"I", "N", "N", "O", "3", "D">>>>,
    <<<<"C", "O", "L", "O", "R", "F", "U", "L">>>>,
    <<<<"M", "A", "N", "L", "I">>>>,
    <<<<"K", "F", "A", "2">>>>,
    <<<<"E", "V", "G", "A">>>>,
    <<<<"L", "E", "A", "D", "T", "E", "K">>>>
>>

\* The alternatives of _chipset_pattern, in the order they are joined.
\* The alternation with the shortest phrase first.
ChipsetPatternsShortestFirst == <<
    <<<<"R", "T", "X">>, <<"4", "0", "7", "0">>>>,
    <<<<"R", "T", "X">>, <<"4", "0", "7", "0">>, <<"T", "i">>>>,
    <<<<"R", "T", "X">>, <<"4", "0", "7", "0">>, <<"S", "u", "p", "e", "r">>>>,
    <<<<"R", "T", "X">>, <<"4", "0", "7", "0">>, <<"T", "i">>, <<"S", "u", "p", "e", "r">>>>,
    <<<<"4", "0", "7", "0">>, <<"T", "i">>>>,
    <<<<"4", "0", "7", "0">>, <<"S", "u", "p", "e", "r">>>>,
    <<<<"4", "0", "7", "0">>, <<"T", "i">>, <<"S", "u", "p", "e", "r">>>>
>>

ChipsetPatterns == <<
    <<<<"R", "T", "X">>, <<"4", "0", "7", "0">>, <<"T", "i">>, <<"S", "u", "p", "e", "r">>>>,
    <<<<"R", "T", "X">>, <<"4", "0", "7", "0">>, <<"S", "u", "p", "e", "r">>>>,
    <<<<"R", "T", "X">>, <<"4", "0", "7", "0">>, <<"T", "i">>>>,
    <<<<"R", "T", "X">>, <<"4", "0", "7", "0">>>>,
    <<<<"4", "0", "7", "0">>, <<"T", "i">>, <<"S", "u", "p", "e", "r">>>>,
    <<<<"4", "0", "7", "0">>, <<"S", "u", "p", "e", "r">>>>,
    <<<<"4", "0", "7", "0">>, <<"T", "i">>>>
>>

OcPatterns == <<<<<<"O", "C">>>>, <<<<"U+C624", "U+BC84", "U+D074", "U+B7ED">>>>, <<<<"O", "v", "e", "r", "c", "l", "o", "c", "k">>>>>>

\* D6X?|GDDR6X? : the optional X is tried first, then dropped.
MemoryTypePatterns == <<<<<<"D", "6", "X">>>>, <<<<"D", "6">>>>, <<<<"G", "D", "D", "R", "6", "X">>>>, <<<<"G", "D", "D", "R", "6">>>>>>

GpuFamilyPatterns == <<<<<<"U+C9C0", "U+D3EC", "U+C2A4">>>>, <<<<"G", "e", "F", "o", "r", "c", "e">>>>>>

\* A mapping that leaves the Korean alias as written.
BrandMappingVerbatim(brand) == brand

BrandMapping(brand) ==
    IF brand = <<"U+AE30", "U+AC00", "U+BC14", "U+C774", "U+D2B8">> THEN <<"G", "I", "G", "A", "B", "Y", "T", "E">>
    ELSE IF brand = <<"U+D314", "U+B9BF">> THEN <<"P", "A", "L", "I", "T">>
    ELSE IF brand = <<"U+C774", "U+C5E0", "U+D14D">> THEN <<"E", "M", "T", "E", "K">>
    ELSE brand

NormalizationError(msg, arg) ==
    [status |-> "error", error |-> "NormalizationError", msg |-> msg, arg |-> arg]

Extracted(value) == [status |-> "ok", value |-> value]

RECURSIVE FirstBrandOfLexicon(_, _)
\* The first brand of BRANDS, from the b-th on, that the name holds anywhere.
FirstBrandOfLexicon(name, b) ==
    IF b > Len(BRANDS) THEN NoMatch
    ELSE IF Search(name, <<BRANDS[b]>>, TRUE) # NoMatch
    THEN Search(name, <<BRANDS[b]>>, TRUE)
    ELSE FirstBrandOfLexicon(name, b + 1)

\* A brand extraction that goes through the lexicon in its order and takes
\* the first brand found anywhere in the name.
_extract_brand_lexicon_first(name) ==
    LET m == FirstBrandOfLexicon(name, 1)
    IN  IF m = NoMatch
        THEN NormalizationError("Failed to extract brand from: {name}", name)
        ELSE Extracted(BrandMapping(UpperStr(Group(name, m))))

_extract_brand(name) ==
    LET m == Search(name, BRANDS, TRUE)
    IN  IF m = NoMatch
        THEN NormalizationError("Failed to extract brand from: {name}", name)
        ELSE Extracted(BrandMapping(UpperStr(Group(name, m))))

\* word.capitalize() if word.lower() not in ['rtx'] else word.upper()
ChipsetWord(word) ==
    IF LowerStr(word) = <<"r", "t", "x">> THEN UpperStr(word) ELSE Capitalize(word)

\* A chipset extraction that accepts any RTX 40x0 numeral and leaves out the
\* check against RTX_4070_VARIANTS.
_extract_chipset_any_series(name) ==
    LET m == Search(name, ChipsetPatterns \o << <<<<"R", "T", "X">>, <<"4", "0", "8", "0">>>> >>, TRUE)
        ws == Split(Group(name, m))
    IN  IF m = NoMatch
        THEN NormalizationError("Failed to extract chipset from: {name}", name)
        ELSE Extracted(Join([w \in 1..Len(ws) |-> ChipsetWord(ws[w])]))

_extract_chipset(name) ==
    LET m == Search(name, ChipsetPatterns, TRUE)
        chipset == Join(Split(Group(name, m)))
        prefixed == IF Len(chipset) >= 3 /\ UpperStr(SubSeq(chipset, 1, 3)) = <<"R", "T", "X">>
                    THEN chipset
                    ELSE <<"R", "T", "X", " ">> \o chipset
        ws == Split(prefixed)
        chipset_normalized == Join([w \in 1..Len(ws) |-> ChipsetWord(ws[w])])
    IN  IF m = NoMatch
        THEN NormalizationError("Failed to extract chipset from: {name}", name)
        ELSE IF \A v \in 1..Len(RTX_4070_VARIANTS) : RTX_4070_VARIANTS[v] # chipset_normalized
        THEN NormalizationError("Chipset {chipset_normalized} not in RTX 4070 series",
                                chipset_normalized)
        ELSE Extracted(chipset_normalized)

\* A VRAM extraction whose error does not quote the product name.
_extract_vram_without_name(name) ==
    LET m == SearchVramFrom(name, 1)
    IN  IF m.end = 0
        THEN NormalizationError("Failed to extract VRAM", <<>>)
        ELSE Extracted(SubSeq(name, m.start, m.digits_end - 1) \o <<"G", "B">>)

_extract_vram(name) ==
    LET m == SearchVramFrom(name, 1)
    IN  IF m.end = 0
        THEN NormalizationError("Failed to extract VRAM from: {name}", name)
        ELSE Extracted(SubSeq(name, m.start, m.digits_end - 1) \o <<"G", "B">>)

_detect_oc(name) == Search(name, OcPatterns, TRUE) # NoMatch

\* re.sub(r'[^\w\s<Hangul>-]', ' ', s)
BlankDecoration(s) ==
    [i \in 1..Len(s) |->
        IF IsWordChar(s[i]) \/ IsSpace(s[i]) \/ IsHangul(s[i]) \/ s[i] = "-"
        THEN s[i] ELSE " "]

_extract_model_name(name, brand, chipset) ==
    LET c1 == RemoveAll(name, <<<<brand>>>>, FALSE)
        c2 == RemoveAll(c1, <<<<chipset>>>>, FALSE)
        c3 == RemoveVramFrom(c2, 1)
        c4 == RemoveAll(c3, OcPatterns, TRUE)
        c5 == RemoveAll(c4, MemoryTypePatterns, TRUE)
        c6 == RemoveAll(c5, GpuFamilyPatterns, TRUE)
        cleaned == Join(Split(BlankDecoration(c6)))
    IN  IF Len(cleaned) > 2 THEN cleaned ELSE name

\* The NormalizedProduct of the extracted fields, or the first error among
\* brand, chipset and VRAM.
NormalizeFields(product_name, brand, chipset, vram) ==
    IF brand.status = "error" THEN brand
    ELSE IF chipset.status = "error" THEN chipset
    ELSE IF vram.status = "error" THEN vram
    ELSE [status |-> "ok",
          brand |-> brand.value,
          chipset |-> chipset.value,
          model_name |-> _extract_model_name(product_name, brand.value,
                                             chipset.value),
          vram |-> vram.value,
          is_oc |-> _detect_oc(product_name)]

\* ProductNormalizer.normalize: a NormalizedProduct, or the error raised.
normalize(product_name) ==
    IF IsBlank(product_name)
    THEN NormalizationError("Product name cannot be empty", <<>>)
    ELSE NormalizeFields(product_name, _extract_brand(product_name),
                         _extract_chipset(product_name), _extract_vram(product_name))

(***************************************************************************)
(* Raw product names.  A name is assembled, in any order, from fragments   *)
(* of listing text, at most one of each kind: a brand, a chipset, a VRAM   *)
(* size, and one extra (an overclock token, a second chipset or brand, a   *)
(* model word, a memory type, blanks).  A fragment that does not end in a  *)
(* space runs into the fragment after it.  role says what the fragment is  *)
(* (chipset: one of the four phrases with its RTX prefix; numeral: without *)
(* the prefix; folded_chipset, folded_brand: written with letters outside  *)
(* ASCII that re.IGNORECASE takes for letters of the token) and value what *)
(* it stands for, in canonical form.                                       *)
(***************************************************************************)
Fragments == <<
    [kind |-> "brand", role |-> "brand",
     text |-> <<"A", "S", "U", "S", " ">>,
     value |-> <<"A", "S", "U", "S">>],
    [kind |-> "brand", role |-> "brand",
     text |-> <<"[", "m", "s", "i", "]", " ">>,
     value |-> <<"M", "S", "I">>],
    [kind |-> "brand", role |-> "brand",
     text |-> <<"U+AE30", "U+AC00", "U+BC14", "U+C774", "U+D2B8", " ">>,
     value |-> <<"G", "I", "G", "A", "B", "Y", "T", "E">>],
    [kind |-> "chipset", role |-> "chipset",
     text |-> <<"R", "T", "X", " ", "4", "0", "7", "0", " ", "T", "i", " ", "S", "u", "p", "e", "r", " ">>,
     value |-> <<"R", "T", "X", " ", "4", "0", "7", "0", " ", "T", "i", " ", "S", "u", "p", "e", "r">>],
    [kind |-> "chipset", role |-> "chipset",
     text |-> <<"R", "T", "X", " ", "4", "0", "7", "0", " ", "T", "i", " ", "S", "u", "p", "e", "r">>,
     value |-> <<"R", "T", "X", " ", "4", "0", "7", "0", " ", "T", "i", " ", "S", "u", "p", "e", "r">>],
    [kind |-> "chipset", role |-> "chipset",
     text |-> <<"r", "t", "x", " ", " ", "4", "0", "7", "0", " ", "S", "U", "P", "E", "R", " ">>,
     value |-> <<"R", "T", "X", " ", "4", "0", "7", "0", " ", "S", "u", "p", "e", "r">>],
    [kind |-> "chipset", role |-> "chipset",
     text |-> <<"R", "T", "X", " ", "4", "0", "7", "0", " ", "T", "i", " ">>,
     value |-> <<"R", "T", "X", " ", "4", "0", "7", "0", " ", "T", "i">>],
    [kind |-> "chipset", role |-> "chipset",
     text |-> <<"R", "T", "X", " ", "4", "0", "7", "0", " ">>,
     value |-> <<"R", "T", "X", " ", "4", "0", "7", "0">>],
    [kind |-> "chipset", role |-> "numeral",
     text |-> <<"4", "0", "7", "0", " ", "T", "i", " ">>,
     value |-> <<"R", "T", "X", " ", "4", "0", "7", "0", " ", "T", "i">>],
    [kind |-> "chipset", role |-> "numeral",
     text |-> <<"4", "0", "7", "0", " ">>,
     value |-> <<"R", "T", "X", " ", "4", "0", "7", "0">>],
    [kind |-> "chipset", role |-> "out_of_scope",
     text |-> <<"R", "T", "X", " ", "4", "0", "8", "0", " ">>,
     value |-> <<>>],
    [kind |-> "vram", role |-> "vram",
     text |-> <<"1", "2", "G", "B", " ">>,
     value |-> <<"1", "2", "G", "B">>],
    [kind |-> "vram", role |-> "vram",
     text |-> <<"1", "6", "\t", "g", "b", " ">>,
     value |-> <<"1", "6", "G", "B">>],
    [kind |-> "extra", role |-> "oc",
     text |-> <<"O", "C", " ">>,
     value |-> <<>>],
    [kind |-> "extra", role |-> "oc",
     text |-> <<"(", "U+C624", "U+BC84", "U+D074", "U+B7ED", ")", " ">>,
     value |-> <<>>],
    [kind |-> "extra", role |-> "word",
     text |-> <<"G", "a", "m", "i", "n", "g", " ">>,
     value |-> <<>>],
    [kind |-> "extra", role |-> "word",
     text |-> <<"X">>,
     value |-> <<>>],
    [kind |-> "extra", role |-> "other_chipset",
     text |-> <<"v", "s", " ", "R", "T", "X", " ", "4", "0", "7", "0", " ", "T", "i", " ">>,
     value |-> <<"R", "T", "X", " ", "4", "0", "7", "0", " ", "T", "i">>],
    [kind |-> "extra", role |-> "other_brand",
     text |-> <<"P", "A", "L", "I", "T", " ">>,
     value |-> <<"P", "A", "L", "I", "T">>],
    [kind |-> "extra", role |-> "word",
     text |-> <<"G", "e", "F", "o", "r", "c", "e", " ", "G", "D", "D", "R", "6", "X", " ">>,
     value |-> <<>>],
    [kind |-> "extra", role |-> "blank",
     text |-> <<" ", "\t">>,
     value |-> <<>>],
    [kind |-> "chipset", role |-> "folded_chipset",
     text |-> <<"R", "T", "X", " ", "4", "0", "7", "0", " ", "T", "U+0131", " ">>,
     value |-> <<>>],
    [kind |-> "chipset", role |-> "folded_chipset",
     text |-> <<"4", "0", "7", "0", " ", "t", "U+0130", " ", "U+017F", "u", "p", "e", "r", " ">>,
     value |-> <<>>],
    [kind |-> "brand", role |-> "folded_brand",
     text |-> <<"m", "U+017F", "U+0130", " ">>,
     value |-> <<"M", "S", "U+0130">>],
    [kind |-> "brand", role |-> "folded_brand",
     text |-> <<"e", "m", "t", "e", "U+212A", " ">>,
     value |-> <<"E", "M", "T", "E", "U+212A">>]
>>

UsedKinds == {Fragments[used[i]].kind : i \in 1..Len(used)}

\* settings.risk_threshold, in hundredths (100.0).
risk_threshold == 10000

\* No product name has been handed to the normalizer.
IdleNormalizer ==
    /\ raw_text = <<>>
    /\ used = <<>>
    /\ norm_result = NoCall

\* An empty store, a calculator with the configured threshold, no call made.
IdleAnalytics ==
    /\ signals = <<>>
    /\ now = 0
    /\ price_logs = {}
    /\ market_signals = {}
    /\ threshold = risk_threshold
    /\ products = {}
    /\ skus = {}
    /\ outage = {}
    /\ ret = NoCall
    /\ risk_alerts = <<>>
    /\ signal_job = NoJob
    /\ price_job = NoJob
    /\ match_job = NoJob

NormInit == IdleNormalizer /\ IdleAnalytics

\* The listing source supplies more of the product name.
AppendFragment(f) ==
    /\ Fragments[f].kind \notin UsedKinds
    /\ raw_text' = raw_text \o Fragments[f].text
    /\ used' = Append(used, f)
    /\ norm_result' = NoCall
    /\ UNCHANGED <<jobVars, alertVars, signals, storeVars, ret>>

\* ProductNormalizer.normalize(raw_text)
Normalize ==
    /\ norm_result' = normalize(raw_text)
    /\ UNCHANGED <<jobVars, alertVars, raw_text, used, signals, storeVars, ret>>

NormNext ==
    \/ \E f \in 1..Len(Fragments) : AppendFragment(f)
    \/ norm_result = NoCall /\ Normalize

SpecNormalize == NormInit /\ [][NormNext]_vars

(***************************************************************************)
(* What a text holds, said without the search the normalizer runs: a token *)
(* is recognizable when it stands in the text between non-word characters. *)
(***************************************************************************)
OccursAt(s, i, word) ==
    /\ i + Len(word) - 1 <= Len(s)
    /\ \A k \in 1..Len(word) : EqIgnoreCase(s[i + k - 1], word[k])

Delimited(s, i, j) ==
    /\ i = 1 \/ ~IsWordChar(s[i - 1])
    /\ j = Len(s) \/ ~IsWordChar(s[j + 1])

HasBrand(s) ==
    \E i \in 1..Len(s), b \in 1..Len(BRANDS) :
        OccursAt(s, i, BRANDS[b][1]) /\ Delimited(s, i, i + Len(BRANDS[b][1]) - 1)

LowerWords(words) == [w \in 1..Len(words) |-> LowerStr(words[w])]

InScopePhrases == {LowerWords(ChipsetPatterns[a]) : a \in 1..Len(ChipsetPatterns)}

\* s[i..j] is a chipset phrase: its words, in any case and with any blanks
\* between them, are those of one of the in-scope phrases.
IsChipsetPhrase(s, i, j) ==
    /\ ToLower(s[i]) \in {"r", "4"}
    /\ ~IsSpace(s[j])
    /\ Delimited(s, i, j)
    /\ LowerWords(Split(SubSeq(s, i, j))) \in InScopePhrases

HasChipset(s) == \E i \in 1..Len(s) : \E j \in i..Len(s) : IsChipsetPhrase(s, i, j)

HasVram(s) ==
    \E i \in 1..Len(s) : \E j \in i..Len(s) : \E k \in (j + 1)..(Len(s) - 1) :
        /\ \A d \in i..j : IsDigit(s[d])
        /\ \A b \in (j + 1)..(k - 1) : IsSpace(s[b])
        /\ ToLower(s[k]) = "g" /\ ToLower(s[k + 1]) = "b"

Roles == {Fragments[used[i]].role : i \in 1..Len(used)}

FragmentOf(role) == Fragments[used[CHOOSE i \in 1..Len(used) : Fragments[used[i]].role = role]]

\* One brand token, one of the four chipset phrases, a VRAM token and
\* optionally an overclock token, each standing apart from the next.
WellFormedListing ==
    /\ Roles \in {{"brand", "chipset", "vram"}, {"brand", "chipset", "vram", "oc"}}
    /\ \A i \in 1..(Len(used) - 1) :
           LET t == Fragments[used[i]].text IN IsSpace(t[Len(t)])

TiSuperPhrase == <<<<"R", "T", "X">>, <<"4", "0", "7", "0">>, <<"T", "i">>, <<"S", "u", "p", "e", "r">>>>

\* The phrase, in any case and with any blanks between its words, starts at i.
TiSuperAt(s, i) == MatchWords(s, i, TiSuperPhrase, 1)

ContainsTiSuper(s) == \E i \in 1..Len(s) : TiSuperAt(s, i) # 0

\* The phrase stands at i as whole words and no chipset phrase starts
\* before it.
TiSuperFirstAt(s, i) ==
    /\ TiSuperAt(s, i) # 0
    /\ Delimited(s, i, TiSuperAt(s, i) - 1)
    /\ \A j \in 1..(i - 1) : MatchAt(s, j, ChipsetPatterns, TRUE) = 0

VariantSet == {RTX_4070_VARIANTS[v] : v \in 1..Len(RTX_4070_VARIANTS)}

\* The only chipset the text mentions is one outside the RTX 4070 series.
OnlyOutOfScopeChipset ==
    /\ "out_of_scope" \in Roles
    /\ Roles \cap {"chipset", "numeral", "other_chipset"} = {}

\* The chipset phrase the search of the text finds has a dotted capital I
\* or a dotless small i for the i of its word Ti.
FoldedChipsetFound(s) ==
    LET m == Search(s, ChipsetPatterns, TRUE)
    IN  m # NoMatch /\ \E k \in m.start..(m.end - 1) : s[k] \in {DottedI, DotlessI}

\* C1 as stated: the fields of a well-formed listing come back exactly, and
\* normalize raises NormalizationError exactly when the text is blank or
\* lacks a recognizable brand, in-scope chipset or VRAM.
C1_Original ==
    norm_result # NoCall =>
        /\ WellFormedListing =>
               /\ norm_result.status = "ok"
               /\ norm_result.brand = FragmentOf("brand").value
               /\ norm_result.chipset = FragmentOf("chipset").value
               /\ norm_result.vram = FragmentOf("vram").value
               /\ norm_result.is_oc = ("oc" \in Roles)
        /\ norm_result.status = "error" <=>
               \/ IsBlank(raw_text)
               \/ ~HasBrand(raw_text)
               \/ ~HasChipset(raw_text)
               \/ ~HasVram(raw_text)
        /\ norm_result.status = "error" => norm_result.error = "NormalizationError"

\* C1: normalize on a text made of one brand token, one of the four chipset
\* phrases, an optional overclock token and a VRAM token, in any order, case
\* and decoration, returns exactly that brand (canonical), chipset, VRAM and
\* overclock flag; and normalize raises NormalizationError exactly when the
\* text is blank, lacks a recognizable brand, in-scope chipset or VRAM, or
\* when the chipset phrase found in it is written with a dotted capital I
\* or a dotless small i: a missing field is never filled in.  A brand
\* token written with a dotted capital I or a Kelvin sign comes back as it
\* is written, in upper case.
C1_NormalizeExact ==
    norm_result # NoCall =>
        /\ WellFormedListing =>
               /\ norm_result.status = "ok"
               /\ norm_result.brand = FragmentOf("brand").value
               /\ norm_result.chipset = FragmentOf("chipset").value
               /\ norm_result.vram = FragmentOf("vram").value
               /\ norm_result.is_oc = ("oc" \in Roles)
        /\ norm_result.status = "error" <=>
               \/ IsBlank(raw_text)
               \/ ~HasBrand(raw_text)
               \/ ~HasChipset(raw_text)
               \/ ~HasVram(raw_text)
               \/ FoldedChipsetFound(raw_text)
        /\ norm_result.status = "error" => norm_result.error = "NormalizationError"
        /\ norm_result.status = "ok" /\ "folded_brand" \in Roles /\ "other_brand" \notin Roles =>
               norm_result.brand = FragmentOf("folded_brand").value

\* A listing with a brand, a VRAM size and the chipset RTX 4070 followed by
\* a word Ti written with a dotless small i was refused.
C1_WitnessFolded ==
    /\ norm_result # NoCall
    /\ norm_result.status = "error"
    /\ HasBrand(raw_text) /\ HasChipset(raw_text) /\ HasVram(raw_text)
    /\ FoldedChipsetFound(raw_text)

\* A decorated listing with a Korean brand alias and an overclock token was
\* normalized.
C1_Witness ==
    /\ norm_result # NoCall
    /\ WellFormedListing
    /\ norm_result.status = "ok"
    /\ norm_result.brand = <<"G", "I", "G", "A", "B", "Y", "T", "E">>
    /\ norm_result.is_oc
    /\ Len(used) = 4

\* C2 as stated: a text containing the phrase RTX 4070 Ti Super, in any case
\* and spacing, never normalizes to a shorter variant, whatever precedes or
\* follows the phrase.
C2_Original ==
    (norm_result # NoCall /\ norm_result.status = "ok" /\ ContainsTiSuper(raw_text))
        => norm_result.chipset = RTX_4070_VARIANTS[1]

\* C2, amended: when the phrase RTX 4070 Ti Super stands in the text as whole
\* words and no chipset phrase starts before it, the text never normalizes
\* to a shorter variant, whatever follows the phrase.
C2_TiSuperFirst ==
    (norm_result # NoCall /\ norm_result.status = "ok"
        /\ \E i \in 1..Len(raw_text) : TiSuperFirstAt(raw_text, i))
        => norm_result.chipset = RTX_4070_VARIANTS[1]

\* The phrase came first and a shorter chipset phrase followed it.
C2_Witness ==
    /\ norm_result # NoCall
    /\ norm_result.status = "ok"
    /\ \E i \in 1..Len(raw_text) : TiSuperFirstAt(raw_text, i)
    /\ "other_chipset" \in Roles
    /\ norm_result.chipset = RTX_4070_VARIANTS[1]

\* C3: normalize never returns a chipset outside the four RTX 4070 variants,
\* and a text whose only chipset mention is outside the series always raises
\* a NormalizationError whose message mentions the chipset: it quotes the
\* text, and it names the chipset as what could not be extracted once the
\* brand, which is looked for first, was found.
C3_ChipsetInScope ==
    norm_result # NoCall =>
        /\ norm_result.status = "ok" => norm_result.chipset \in VariantSet
        /\ OnlyOutOfScopeChipset =>
               /\ norm_result.status = "error"
               /\ norm_result.error = "NormalizationError"
               /\ norm_result.arg = raw_text
               /\ HasBrand(raw_text) =>
                      norm_result.msg = "Failed to extract chipset from: {name}"

\* A branded listing of an RTX 4080 with its VRAM was refused.
C3_Witness ==
    /\ norm_result # NoCall
    /\ OnlyOutOfScopeChipset
    /\ HasBrand(raw_text)
    /\ HasVram(raw_text)
    /\ norm_result.status = "error"
    /\ norm_result.msg = "Failed to extract chipset from: {name}"


(***************************************************************************)
(* Time.  The clock counts ticks, TicksPerDay of them to a calendar day,   *)
(* so that a datetime has a date and a time of day.                        *)
(***************************************************************************)
TicksPerDay == 2

\* datetime.date()
DateOf(timestamp) == timestamp \div TicksPerDay

\* timedelta(days=days)
Days(days) == days * TicksPerDay

(***************************************************************************)
(* SentimentAnalyzer (src/etl/transformers/sentiment_analyzer.py).         *)
(* A MarketSignal is [keyword, post_url, timestamp]; a frequency map is a  *)
(* function keyword -> (date -> count) defined where a count was made.     *)
(***************************************************************************)
NewRelease == <<"N", "e", "w", " ", "R", "e", "l", "e", "a", "s", "e">>
PriceDrop == <<"P", "r", "i", "c", "e", " ", "D", "r", "o", "p">>
Leak == <<"L", "e", "a", "k">>

EmptyMap == [x \in {} |-> 0]

\* frequency_map[keyword][signal_date] += 1 on a defaultdict of defaultdicts
IncrementCount(frequency_map, keyword, signal_date) ==
    LET date_counts == IF keyword \in DOMAIN frequency_map
                       THEN frequency_map[keyword] ELSE EmptyMap
        count == IF signal_date \in DOMAIN date_counts
                 THEN date_counts[signal_date] ELSE 0
    IN  [k \in DOMAIN frequency_map \cup {keyword} |->
            IF k = keyword
            THEN [d \in DOMAIN date_counts \cup {signal_date} |->
                     IF d = signal_date THEN count + 1 ELSE date_counts[d]]
            ELSE frequency_map[k]]

RECURSIVE CountEverySignal(_, _, _)
\* The loop without unique_mentions: every signal counts.
CountEverySignal(sigs, i, frequency_map) ==
    IF i > Len(sigs) THEN frequency_map
    ELSE CountEverySignal(sigs, i + 1,
             IncrementCount(frequency_map, sigs[i].keyword, DateOf(sigs[i].timestamp)))

analyze_keyword_frequency_counting_all(sigs) == CountEverySignal(sigs, 1, EmptyMap)

RECURSIVE CountMentions(_, _, _, _)
\* The loop of analyze_keyword_frequency from signal i on.
CountMentions(sigs, i, unique_mentions, frequency_map) ==
    IF i > Len(sigs) THEN frequency_map
    ELSE LET signal == sigs[i]
             signal_date == DateOf(signal.timestamp)
             mention_key == <<signal.keyword, signal_date, signal.post_url>>
         IN  IF mention_key \notin unique_mentions
             THEN CountMentions(sigs, i + 1, unique_mentions \cup {mention_key},
                      IncrementCount(frequency_map, signal.keyword, signal_date))
             ELSE CountMentions(sigs, i + 1, unique_mentions, frequency_map)

analyze_keyword_frequency(sigs) == CountMentions(sigs, 1, {}, EmptyMap)

\* RedditCollector.KEYWORDS, the keywords a collection run searches for.
Issues == <<"I", "s", "s", "u", "e", "s">>
KEYWORDS == {NewRelease, Leak, Issues, PriceDrop, <<"U", "s", "e", "d", " ", "M", "a", "r", "k", "e", "t">>,
             <<"5", "0", "7", "0", " ", "r", "e", "l", "e", "a", "s", "e", " ", "d", "a", "t", "e">>}

\* settings.sentiment_weight_*, in hundredths (3.0, 2.0, 1.0).
sentiment_weight_new_release == 300
sentiment_weight_price_drop == 200
sentiment_weight_default == 100

\* SentimentAnalyzer.keyword_weights
keyword_weights ==
    [keyword \in KEYWORDS |->
        IF keyword \in {NewRelease, Leak, <<"5", "0", "7", "0", " ", "r", "e", "l", "e", "a", "s", "e", " ", "d", "a", "t", "e">>}
        THEN sentiment_weight_new_release
        ELSE IF keyword = PriceDrop THEN sentiment_weight_price_drop
        ELSE sentiment_weight_default]

\* self.keyword_weights.get(keyword, settings.sentiment_weight_default)
WeightOf(keyword) ==
    IF keyword \in DOMAIN keyword_weights THEN keyword_weights[keyword]
    ELSE sentiment_weight_default

RECURSIVE calculate_sentiment_score_unweighted(_)
\* The score that gives every keyword the default weight.
calculate_sentiment_score_unweighted(keyword_counts) ==
    IF DOMAIN keyword_counts = {} THEN 0
    ELSE LET keyword == CHOOSE k \in DOMAIN keyword_counts : TRUE
             rest == [k \in DOMAIN keyword_counts \ {keyword} |-> keyword_counts[k]]
         IN  keyword_counts[keyword] * sentiment_weight_default
                 + calculate_sentiment_score_unweighted(rest)

RECURSIVE calculate_sentiment_score(_)
\* SentimentAnalyzer.calculate_sentiment_score: the score in hundredths, the
\* loop over keyword_counts.items() adding count * weight.
calculate_sentiment_score(keyword_counts) ==
    IF DOMAIN keyword_counts = {} THEN 0
    ELSE LET keyword == CHOOSE k \in DOMAIN keyword_counts : TRUE
             rest == [k \in DOMAIN keyword_counts \ {keyword} |-> keyword_counts[k]]
         IN  keyword_counts[keyword] * WeightOf(keyword)
                 + calculate_sentiment_score(rest)

\* SentimentAnalyzer.calculate_daily_sentiment_scores: date -> score
calculate_daily_sentiment_scores(sigs) ==
    LET frequency_map == analyze_keyword_frequency(sigs)
        all_dates == UNION {DOMAIN frequency_map[keyword] :
                               keyword \in DOMAIN frequency_map}
        keyword_counts_for_date(target_date) ==
            [keyword \in {k \in DOMAIN frequency_map :
                             target_date \in DOMAIN frequency_map[k]} |->
                frequency_map[keyword][target_date]]
    IN  [target_date \in all_dates |->
            calculate_sentiment_score(keyword_counts_for_date(target_date))]

\* The enrichment that scores each signal by its own keyword alone.
enrich_signals_with_sentiment_per_signal(sigs) ==
    [i \in 1..Len(sigs) |->
        [keyword |-> sigs[i].keyword, post_url |-> sigs[i].post_url,
         timestamp |-> sigs[i].timestamp,
         sentiment_score |-> WeightOf(sigs[i].keyword)]]

\* SentimentAnalyzer.enrich_signals_with_sentiment: every signal of the list
\* gets its date's score in sentiment_score; the list returned holds the
\* same MarketSignal objects.
enrich_signals_with_sentiment(sigs) ==
    LET daily_scores == calculate_daily_sentiment_scores(sigs)
    IN  [i \in 1..Len(sigs) |->
            LET signal_date == DateOf(sigs[i].timestamp)
            IN  [keyword |-> sigs[i].keyword, post_url |-> sigs[i].post_url,
                 timestamp |-> sigs[i].timestamp,
                 sentiment_score |-> IF signal_date \in DOMAIN daily_scores
                                     THEN daily_scores[signal_date] ELSE 0]]

\* The signals a collection run can find: a post mentions a keyword at a
\* time of some day.
MaxSignals == 3
SignalKeywords == {NewRelease, PriceDrop, Issues}
PostUrls == {"https://reddit.com/r/nvidia/comments/abc123",
             "https://reddit.com/r/pcmasterrace/comments/def456"}
SignalTimes == 0..2
CollectedSignals == [keyword : SignalKeywords, post_url : PostUrls, timestamp : SignalTimes]

SentimentInit == IdleNormalizer /\ IdleAnalytics

\* RedditCollector.collect_signals appends a MarketSignal to the run's list.
CollectSignal(signal) ==
    /\ Len(signals) < MaxSignals
    /\ signals' = Append(signals, signal)
    /\ ret' = NoCall
    /\ UNCHANGED <<jobVars, alertVars, normVars, storeVars>>

\* SentimentAnalyzer.analyze_keyword_frequency(signals)
AnalyzeKeywordFrequency ==
    /\ Callable("analyze_keyword_frequency", <<>>)
    /\ ret' = [status |-> "ok", op |-> "analyze_keyword_frequency",
               value |-> analyze_keyword_frequency(signals)]
    /\ UNCHANGED <<jobVars, alertVars, normVars, signals, storeVars>>

\* The mention counts handed to calculate_sentiment_score: some of the
\* configured keywords and one that is not configured.
ScoredKeywords == {NewRelease, Leak, PriceDrop, Issues, <<"G", "P", "U">>}
ScoredCounts == {2, 3, 5}
KeywordCounts == UNION {[scored -> ScoredCounts] : scored \in SUBSET ScoredKeywords}

\* SentimentAnalyzer.calculate_sentiment_score(keyword_counts)
CalculateSentimentScore(keyword_counts) ==
    /\ Callable("calculate_sentiment_score", [keyword_counts |-> keyword_counts])
    /\ ret' = [status |-> "ok", op |-> "calculate_sentiment_score",
               value |-> calculate_sentiment_score(keyword_counts),
               keyword_counts |-> keyword_counts]
    /\ UNCHANGED <<jobVars, alertVars, normVars, signals, storeVars>>

\* SentimentAnalyzer.enrich_signals_with_sentiment(signals): the signals of
\* the list are updated in place and returned.
EnrichSignalsWithSentiment ==
    /\ ret = NoCall
    /\ ret' = [status |-> "ok", op |-> "enrich_signals_with_sentiment",
               value |-> enrich_signals_with_sentiment(signals),
               signals |-> signals]
    /\ signals' = enrich_signals_with_sentiment(signals)
    /\ UNCHANGED <<jobVars, alertVars, normVars, storeVars>>

SentimentNext ==
    \/ \E signal \in CollectedSignals : CollectSignal(signal)
    \/ AnalyzeKeywordFrequency
    \/ \E keyword_counts \in KeywordCounts :
           signals = <<>> /\ CalculateSentimentScore(keyword_counts)
    \/ EnrichSignalsWithSentiment

SpecSentiment == SentimentInit /\ [][SentimentNext]_vars

\* The distinct post URLs among the mentions of keyword k dated d.
UrlsOf(sigs, k, d) ==
    {sigs[i].post_url : i \in {j \in 1..Len(sigs) :
        sigs[j].keyword = k /\ DateOf(sigs[j].timestamp) = d}}

\* The count the map holds for keyword k on date d, 0 where it has no entry.
CountIn(frequency_map, k, d) ==
    IF k \in DOMAIN frequency_map /\ d \in DOMAIN frequency_map[k]
    THEN frequency_map[k][d] ELSE 0

HasEntry(frequency_map, k, d) ==
    k \in DOMAIN frequency_map /\ d \in DOMAIN frequency_map[k]

Swapped(sigs, i, j) ==
    [x \in 1..Len(sigs) |-> IF x = i THEN sigs[j] ELSE IF x = j THEN sigs[i] ELSE sigs[x]]

AnalyzedFrequency == ret # NoCall /\ ret.op = "analyze_keyword_frequency"

\* C4: analyze_keyword_frequency returns, for each keyword and calendar
\* date, exactly the number of distinct post URLs among the mentions with
\* that keyword on that date, with no entry where that number is 0; so the
\* result does not change when the list is permuted or a mention repeated,
\* and two keywords found in one post count 1 each.
C4_DistinctUrlsPerKeywordDate ==
    AnalyzedFrequency =>
        /\ DOMAIN ret.value \subseteq SignalKeywords
        /\ \A k \in SignalKeywords : \A d \in {DateOf(t) : t \in SignalTimes} :
               /\ CountIn(ret.value, k, d) = Cardinality(UrlsOf(signals, k, d))
               /\ HasEntry(ret.value, k, d) <=> UrlsOf(signals, k, d) # {}
        /\ \A k \in DOMAIN ret.value :
               DOMAIN ret.value[k] \subseteq {DateOf(t) : t \in SignalTimes}
        /\ \A i, j \in 1..Len(signals) :
               analyze_keyword_frequency(Swapped(signals, i, j)) = ret.value
        /\ \A i \in 1..Len(signals) :
               analyze_keyword_frequency(Append(signals, signals[i])) = ret.value

\* One post mentioned both keywords, one of them twice at different times of
\* the same day, and each keyword was counted once.
C4_Witness ==
    /\ AnalyzedFrequency
    /\ Len(signals) = 3
    /\ \A i \in 1..3 : signals[i].post_url = signals[1].post_url
    /\ signals[1].keyword = signals[2].keyword
    /\ signals[1].timestamp # signals[2].timestamp
    /\ DateOf(signals[1].timestamp) = DateOf(signals[2].timestamp)
    /\ signals[3].keyword # signals[1].keyword
    /\ DateOf(signals[3].timestamp) = DateOf(signals[1].timestamp)
    /\ CountIn(ret.value, NewRelease, 0) = 1
    /\ CountIn(ret.value, PriceDrop, 0) = 1

(***************************************************************************)
(* The store (src/etl/loaders/db_loader.py).  A market_signals row is      *)
(* [keyword, date, post_url, mention_count], unique in (keyword, date,     *)
(* post_url); a price_logs row is [sku_id, source, recorded_at, price,     *)
(* price_change_pct], unique in (sku_id, source, recorded_at).  Prices are *)
(* whole KRW; percentages and risk indices are kept in hundredths, the     *)
(* precision round(x, 2) leaves.                                           *)
(***************************************************************************)
\* The column default of market_signals.mention_count.
MentionCountDefault == 1

\* insert_market_signal(signal): INSERT ... ON CONFLICT (keyword, date,
\* post_url) DO UPDATE SET mention_count = market_signals.mention_count + 1
insert_market_signal(table, signal) ==
    LET signal_date == DateOf(signal.timestamp)
        conflict == {row \in table : /\ row.keyword = signal.keyword
                                     /\ row.date = signal_date
                                     /\ row.post_url = signal.post_url}
    IN  IF conflict = {}
        THEN table \cup {[keyword |-> signal.keyword, date |-> signal_date,
                          post_url |-> signal.post_url,
                          mention_count |-> MentionCountDefault]}
        ELSE (table \ conflict) \cup
             {[row EXCEPT !.mention_count = row.mention_count + 1] : row \in conflict}

RECURSIVE load_market_signals_from(_, _, _)
\* ETLPipeline.load_market_signals: insert_market_signal for each signal.
load_market_signals_from(table, sigs, i) ==
    IF i > Len(sigs) THEN table
    ELSE load_market_signals_from(insert_market_signal(table, sigs[i]), sigs, i + 1)

load_market_signals(table, sigs) == load_market_signals_from(table, sigs, 1)

\* LIKE '%term%'
Contains(s, term) ==
    \E i \in 1..(Len(s) - Len(term) + 1) : SubSeq(s, i, i + Len(term) - 1) = term

\* The terms without 'leak'.
ReleaseTermsWithoutLeak == {<<"n", "e", "w", " ", "r", "e", "l", "e", "a", "s", "e">>,
                            <<"5", "0", "7", "0">>}

ReleaseTerms == {<<"n", "e", "w", " ", "r", "e", "l", "e", "a", "s", "e">>,
                 <<"l", "e", "a", "k">>,
                 <<"5", "0", "7", "0">>}

\* LOWER(keyword) LIKE '%new release%' OR ... LIKE '%leak%' OR ... LIKE '%5070%'
IsReleaseKeyword(keyword) == \E term \in ReleaseTerms : Contains(LowerStr(keyword), term)

RECURSIVE SumMentionCount(_)
\* SUM(mention_count) over a set of rows
SumMentionCount(rows) ==
    IF rows = {} THEN 0
    ELSE LET row == CHOOSE r \in rows : TRUE
         IN  row.mention_count + SumMentionCount(rows \ {row})

\* What the statement of get_new_release_mentions selects: for each release
\* keyword with a row dated in the window, SUM(mention_count) ... GROUP BY keyword
new_release_totals(table, clock, days) ==
    LET start_date == DateOf(clock - Days(days))
        rows == {row \in table : row.date >= start_date /\ IsReleaseKeyword(row.keyword)}
    IN  [keyword \in {row.keyword : row \in rows} |->
            SumMentionCount({row \in rows : row.keyword = keyword})]

\* The conversions psycopg2 finds in the statement of get_new_release_mentions,
\* every % that is not doubled being one: the %s of the date and the two %
\* of each of the three LIKE patterns.
MentionConversions == 7

\* The parameters the statement is executed with: (start_date.date(),).
MentionParams == 1

\* cursor.execute(query, params) with a parameter tuple, as psycopg2 does
\* it: each conversion of the statement takes the next parameter, and a
\* conversion that finds none left raises IndexError before anything is
\* sent to the server.  IndexError is no OperationalError or DatabaseError,
\* so execute_with_retry does not retry it.  Past that the statement is
\* sent, and comes back with DatabaseError when the storage fails on it.
execute_with_retry(conversions, params, fails) ==
    IF conversions > params THEN "IndexError"
    ELSE IF fails THEN "DatabaseError"
    ELSE "ok"

\* RiskCalculator.get_new_release_mentions(days): keyword -> total_mentions,
\* or the exception `except Exception: raise` passes on.
get_new_release_mentions(failing, table, clock, days) ==
    LET executed == execute_with_retry(MentionConversions, MentionParams,
                                       "get_new_release_mentions" \in failing)
    IN  IF executed # "ok" THEN Raised("get_new_release_mentions", executed)
        ELSE Returned("get_new_release_mentions", new_release_totals(table, clock, days))

RECURSIVE SumValues(_)
\* sum(mentions.values())
SumValues(mapping) ==
    IF DOMAIN mapping = {} THEN 0
    ELSE LET k == CHOOSE x \in DOMAIN mapping : TRUE
         IN  mapping[k] + SumValues([x \in DOMAIN mapping \ {k} |-> mapping[x]])

(***************************************************************************)
(* Collection runs loading the market_signals table.                       *)
(***************************************************************************)
MaxClock == 3
MaxRows == 2
MaxMentionCount == 3
MaxBatch == 2
StoredKeywords == {NewRelease, Leak, PriceDrop}
WindowDays == {1, 2}

\* What a run collects now: a post mentioning a keyword, published within
\* the last tick.
SignalsAt(clock) ==
    [keyword : StoredKeywords, post_url : PostUrls,
     timestamp : {t \in {clock - 1, clock} : t >= 0}]

BatchesAt(clock) ==
    UNION {[1..n -> SignalsAt(clock)] : n \in 1..MaxBatch}

WithinTableBounds(table) ==
    /\ Cardinality(table) <= MaxRows
    /\ \A row \in table : row.mention_count <= MaxMentionCount

SignalsInit == IdleNormalizer /\ IdleAnalytics

\* Time passes.
Tick ==
    /\ now < MaxClock
    /\ now' = now + 1
    /\ ret' = NoCall
    /\ UNCHANGED <<jobVars, alertVars, normVars, signals, price_logs, market_signals, threshold, products, skus, outage>>

\* The storage collaborator starts failing on the queries in `failing`.
StorageFails(failing) ==
    /\ outage = {}
    /\ outage' = failing
    /\ ret' = NoCall
    /\ UNCHANGED <<jobVars, alertVars, normVars, signals, now, price_logs, market_signals, threshold,
                   products, skus>>

\* The storage collaborator answers every query again.
StorageRecovers ==
    /\ outage # {}
    /\ outage' = {}
    /\ ret' = NoCall
    /\ UNCHANGED <<jobVars, alertVars, normVars, signals, now, price_logs, market_signals, threshold,
                   products, skus>>

\* One pass of the loop `for signal in signals: insert_market_signal(signal)`
\* that ETLPipeline.load_market_signals and insert_market_signals_batch
\* share.  Every insert_market_signal is a transaction of its own, committed
\* when its cursor is released.  When the statement fails the pipeline's
\* loader records the error and goes on with the next signal, while
\* insert_market_signals_batch raises LoaderError and leaves the rest out.
InsertOneSignal(op, todo) ==
    LET failed == "insert_market_signal" \in outage
        stops == failed /\ op = "insert_market_signals_batch"
    IN  /\ market_signals' = IF failed THEN market_signals
                              ELSE insert_market_signal(market_signals, Head(todo))
        /\ signal_job' = IF stops \/ Tail(todo) = <<>> THEN NoJob
                          ELSE [pc |-> "loop", op |-> op, todo |-> Tail(todo)]
        /\ ret' = IF stops THEN Raised(op, "LoaderError") ELSE NoCall

\* ETLPipeline.load_market_signals(batch) is called and inserts the first
\* signal of the batch.
LoadMarketSignals(batch) ==
    /\ signal_job = NoJob
    /\ batch # <<>>
    /\ InsertOneSignal("load_market_signals", batch)
    /\ UNCHANGED <<price_job, match_job, alertVars, normVars, signals, now, price_logs, threshold, products, skus, outage>>

\* insert_market_signals_batch(batch) is called and inserts the first signal
\* of the batch.
InsertMarketSignalsBatch(batch) ==
    /\ signal_job = NoJob
    /\ batch # <<>>
    /\ InsertOneSignal("insert_market_signals_batch", batch)
    /\ UNCHANGED <<price_job, match_job, alertVars, normVars, signals, now, price_logs, threshold, products, skus, outage>>

\* The running loader inserts its next signal.
LoadNextSignal ==
    /\ signal_job # NoJob
    /\ InsertOneSignal(signal_job.op, signal_job.todo)
    /\ UNCHANGED <<price_job, match_job, alertVars, normVars, signals, now, price_logs, threshold, products, skus, outage>>

\* RiskCalculator.get_new_release_mentions(days)
GetNewReleaseMentions(days) ==
    /\ Callable("get_new_release_mentions", [days |-> days])
    /\ ret' = get_new_release_mentions(outage, market_signals, now, days) @@ [days |-> days]
    /\ UNCHANGED <<jobVars, alertVars, normVars, signals, storeVars>>

SignalsNext ==
    \/ Tick
    \/ \E batch \in BatchesAt(now) :
           /\ WithinTableBounds(load_market_signals(market_signals, batch))
           /\ LoadMarketSignals(batch)
    \/ \E batch \in BatchesAt(now) :
           /\ WithinTableBounds(load_market_signals(market_signals, batch))
           /\ InsertMarketSignalsBatch(batch)
    \/ LoadNextSignal
    \/ StorageFails({"insert_market_signal"})
    \/ StorageRecovers
    \/ \E days \in WindowDays : GetNewReleaseMentions(days)

SpecSignals == SignalsInit /\ [][SignalsNext]_vars

\* The rows of the release keyword k dated inside the trailing window: one
\* row for each distinct (keyword, date, post URL) loaded.
KeysInWindow(k, days) ==
    {row \in market_signals : row.keyword = k /\ row.date >= DateOf(now - Days(days))}

TotalOf(mentions, k) == IF k \in DOMAIN mentions THEN mentions[k] ELSE 0

GotMentions == ret # NoCall /\ ret.op = "get_new_release_mentions"

\* C5: after any sequence of loads, a key loaded more than once included,
\* the per-keyword totals of get_new_release_mentions, and so their sum, the
\* aggregate handed to calculate_risk_for_all_skus, count every distinct
\* (keyword, date, post URL) key inside the window exactly once.
C5_DistinctKeysCountedOnce ==
    GotMentions =>
        /\ ret.status = "ok"
        /\ \A k \in StoredKeywords :
               TotalOf(ret.value, k) =
                   IF IsReleaseKeyword(k) THEN Cardinality(KeysInWindow(k, ret.days)) ELSE 0
        /\ SumValues(ret.value) =
               Cardinality(UNION {KeysInWindow(k, ret.days) :
                                     k \in {x \in StoredKeywords : IsReleaseKeyword(x)}})

(***************************************************************************)
(* PriceAnalyzer (src/etl/transformers/price_analyzer.py) and              *)
(* RiskCalculator (src/etl/transformers/risk_calculator.py).               *)
(***************************************************************************)
(***************************************************************************)
(* The float arithmetic of Python: IEEE 754 doubles, every operation       *)
(* rounded to 53 significant bits, a tie to the even mantissa.  A natural  *)
(* number beyond the integers at hand is a sequence of digits of base      *)
(* 2^15, the least significant first, without leading zero digits.  A      *)
(* double is [neg, m, e] for the value (-1)^neg * m * 2^e.                 *)
(***************************************************************************)
RECURSIVE BigOf(_)
\* The digits of the natural number n.
BigOf(n) == IF n = 0 THEN <<>> ELSE <<n % 32768>> \o BigOf(n \div 32768)

RECURSIVE IntOf(_)
\* The natural number of the digits a.
IntOf(a) == IF a = <<>> THEN 0 ELSE Head(a) + 32768 * IntOf(Tail(a))

RECURSIVE Strip(_)
\* a without leading zero digits.
Strip(a) ==
    IF a # <<>> /\ a[Len(a)] = 0 THEN Strip(SubSeq(a, 1, Len(a) - 1)) ELSE a

RECURSIVE AddWithCarry(_, _, _)
AddWithCarry(a, b, carry) ==
    IF a = <<>> /\ b = <<>> THEN (IF carry = 0 THEN <<>> ELSE <<carry>>)
    ELSE LET t == (IF a = <<>> THEN 0 ELSE Head(a)) + (IF b = <<>> THEN 0 ELSE Head(b)) + carry
         IN  <<t % 32768>> \o AddWithCarry(IF a = <<>> THEN <<>> ELSE Tail(a),
                                           IF b = <<>> THEN <<>> ELSE Tail(b),
                                           t \div 32768)

\* a + b
BigAdd(a, b) == AddWithCarry(a, b, 0)

RECURSIVE SubWithBorrow(_, _, _)
SubWithBorrow(a, b, borrow) ==
    IF a = <<>> THEN <<>>
    ELSE LET t == Head(a) - (IF b = <<>> THEN 0 ELSE Head(b)) - borrow
         IN  <<IF t < 0 THEN t + 32768 ELSE t>> \o
             SubWithBorrow(Tail(a), IF b = <<>> THEN <<>> ELSE Tail(b),
                           IF t < 0 THEN 1 ELSE 0)

\* a - b for a >= b
BigSub(a, b) == Strip(SubWithBorrow(a, b, 0))

RECURSIVE CompareFrom(_, _, _)
CompareFrom(a, b, i) ==
    IF i = 0 THEN 0
    ELSE IF a[i] # b[i] THEN (IF a[i] < b[i] THEN -1 ELSE 1)
    ELSE CompareFrom(a, b, i - 1)

\* -1, 0 or 1 as a is less than, equal to or greater than b
BigCmp(a, b) ==
    IF Len(a) # Len(b) THEN (IF Len(a) < Len(b) THEN -1 ELSE 1)
    ELSE CompareFrom(a, b, Len(a))

RECURSIVE MulWithCarry(_, _, _)
MulWithCarry(a, c, carry) ==
    IF a = <<>> THEN BigOf(carry)
    ELSE LET t == Head(a) * c + carry
         IN  <<t % 32768>> \o MulWithCarry(Tail(a), c, t \div 32768)

\* a * c for a natural number c below 2^15
BigMulSmall(a, c) == Strip(MulWithCarry(a, c, 0))

RECURSIVE BigShl(_, _)
\* a * 2^k
BigShl(a, k) ==
    IF k = 0 \/ a = <<>> THEN a
    ELSE IF k >= 15 THEN BigShl(<<0>> \o a, k - 15)
    ELSE BigShl(BigMulSmall(a, 2), k - 1)

\* a \div 2
BigHalf(a) ==
    Strip([i \in 1..Len(a) |->
               (a[i] \div 2) + (IF i < Len(a) THEN (a[i + 1] % 2) * 16384 ELSE 0)])

RECURSIVE BitsOf(_)
BitsOf(n) == IF n = 0 THEN 0 ELSE 1 + BitsOf(n \div 2)

\* The number of binary digits of a.
BigBits(a) == IF a = <<>> THEN 0 ELSE 15 * (Len(a) - 1) + BitsOf(a[Len(a)])

RECURSIVE BigMul(_, _)
\* a * b
BigMul(a, b) ==
    IF a = <<>> \/ b = <<>> THEN <<>>
    ELSE LET rest == BigMul(a, Tail(b))
         IN  BigAdd(BigMulSmall(a, Head(b)), IF rest = <<>> THEN <<>> ELSE <<0>> \o rest)

\* One step of the long division: the binary digit `fits` joins the
\* quotient and the divisor is halved.
DivStep(at, fits) ==
    [rem |-> IF fits THEN BigSub(at.rem, at.d) ELSE at.rem,
     d |-> BigHalf(at.d),
     quot |-> Strip(MulWithCarry(at.quot, 2, IF fits THEN 1 ELSE 0))]

RECURSIVE DivLoop(_, _)
\* Long division, one binary digit of the quotient at a time: at.d is the
\* divisor times 2^k, at.rem what is left of the dividend and at.quot the
\* digits found.
DivLoop(at, k) ==
    IF k < 0 THEN [quot |-> at.quot, rem |-> at.rem]
    ELSE IF BigCmp(at.rem, at.d) >= 0 THEN DivLoop(DivStep(at, TRUE), k - 1)
    ELSE DivLoop(DivStep(at, FALSE), k - 1)

\* p \div q and p % q for q > 0
BigDivMod(p, q) ==
    LET k == IF BigBits(p) > BigBits(q) THEN BigBits(p) - BigBits(q) ELSE 0
    IN  DivLoop([rem |-> p, d |-> BigShl(q, k), quot |-> <<>>], k)

\* quot or quot + 1, c comparing twice the remainder with the divisor: the
\* nearer one, the even one on a tie.
NearestQuotient(quot, c) ==
    IF c > 0 \/ (c = 0 /\ quot # <<>> /\ quot[1] % 2 = 1) THEN BigAdd(quot, <<1>>) ELSE quot

RoundedQuotient(dm, q) == NearestQuotient(dm.quot, BigCmp(BigMulSmall(dm.rem, 2), q))

\* p / q rounded to the nearest natural number, a tie to the even one.
BigRoundDiv(p, q) == RoundedQuotient(BigDivMod(p, q), q)

\* The double of a quotient p / q in [2^52, 2^54): one more binary digit is
\* dropped when it is 2^53 or more (`over`).
Mantissa(neg, p, q, e, over) ==
    [neg |-> neg,
     m |-> BigRoundDiv(p, IF over THEN BigMulSmall(q, 2) ELSE q),
     e |-> IF over THEN e + 1 ELSE e]

Scaled(neg, p, q, e) == Mantissa(neg, p, q, e, BigCmp(p, BigShl(q, 53)) >= 0)

Shifted(neg, p, q, e, k) ==
    Scaled(neg, IF k >= 0 THEN BigShl(p, k) ELSE p, IF k < 0 THEN BigShl(q, -k) ELSE q, e - k)

\* The double nearest to p / q * 2^e for p, q > 0: the quotient is scaled
\* into [2^52, 2^54) and rounded to 53 bits there.
RoundToDouble(neg, p, q, e) == Shifted(neg, p, q, e, 53 - (BigBits(p) - BigBits(q)))

FloatZero == [neg |-> FALSE, m |-> <<>>, e |-> 0]

\* float(n) for an integer n of less than 53 bits
FloatOfInt(n) == [neg |-> n < 0, m |-> BigOf(IF n < 0 THEN -n ELSE n), e |-> 0]

\* a and b carry the signs xneg and yneg: their sum, times 2^e.
SignedSum(xneg, a, yneg, b, e) ==
    IF xneg = yneg THEN [neg |-> xneg, p |-> BigAdd(a, b), q |-> <<1>>, e |-> e]
    ELSE IF BigCmp(a, b) >= 0 THEN [neg |-> xneg, p |-> BigSub(a, b), q |-> <<1>>, e |-> e]
    ELSE [neg |-> yneg, p |-> BigSub(b, a), q |-> <<1>>, e |-> e]

\* x + y for doubles x and y, exactly
ExactSum(x, y, e) ==
    SignedSum(x.neg, BigShl(x.m, x.e - e), y.neg, BigShl(y.m, y.e - e), e)

\* The exact value of x op y, as (-1)^neg * p / q * 2^e.
Exact(op, x, y) ==
    CASE op \in {"+", "-"} ->
             ExactSum(x, IF op = "-" THEN [y EXCEPT !.neg = ~y.neg] ELSE y,
                      IF x.e < y.e THEN x.e ELSE y.e)
      [] op = "*" -> [neg |-> x.neg # y.neg, p |-> BigMul(x.m, y.m), q |-> <<1>>, e |-> x.e + y.e]
      [] op = "/" -> [neg |-> x.neg # y.neg, p |-> x.m, q |-> y.m, e |-> x.e - y.e]

\* The double an exact value is rounded to.
Rounded(exact) ==
    IF exact.p = <<>> THEN FloatZero
    ELSE RoundToDouble(exact.neg, exact.p, exact.q, exact.e)

RECURSIVE FloatEval(_)
\* The double a float expression evaluates to: [op |-> "float", n |-> n] is
\* float(n), [op |-> "double", value |-> d] the literal d, and
\* [op |-> o, x |-> ., y |-> .] the operation o of + - * / on the values of
\* x and y, rounded once.
FloatEval(expr) ==
    CASE expr.op = "float" -> FloatOfInt(expr.n)
      [] expr.op = "double" -> expr.value
      [] OTHER -> Rounded(Exact(expr.op, FloatEval(expr.x), FloatEval(expr.y)))

\* h with the sign of a double.
WithSign(neg, h) == IF neg THEN -h ELSE h

\* round(x, 2) in hundredths: the value of the double itself is rounded, a
\* tie to the even hundredth.
RoundHundredths(x) ==
    WithSign(x.neg, IntOf(IF x.e >= 0 THEN BigShl(BigMulSmall(x.m, 100), x.e)
                          ELSE BigRoundDiv(BigMulSmall(x.m, 100), BigShl(<<1>>, -x.e))))

\* The double 0.3, 5404319552844595 * 2^-54.
Float03 == [neg |-> FALSE, m |-> <<13107, 26214, 19660, 153>>, e |-> -54]

\* round(num / den, 0) for den > 0: to the nearest integer, a tie to the
\* even one, as round() does.
RoundHalfEven(num, den) ==
    LET q == num \div den
        r == num % den
    IN  IF 2 * r < den THEN q
        ELSE IF 2 * r > den THEN q + 1
        ELSE IF q % 2 = 0 THEN q ELSE q + 1

\* num / den * 100 rounded to 2 decimals, in hundredths, for den > 0; the
\* whole part and the hundredths are taken one after the other so that no
\* intermediate value leaves the 32-bit range for prices of some millions of
\* KRW.
PercentRounded(num, den) ==
    ((100 * num) \div den) * 100 + RoundHalfEven(100 * ((100 * num) % den), den)

\* num / den * 100 does not lie halfway between two hundredths.
PercentOffTie(num, den) ==
    2 * ((100 * ((100 * num) % den)) % den) # den

\* float(n) and the binary operations as float expressions.
Float(n) == [op |-> "float", n |-> n]
FloatOp(x, op, y) == [op |-> op, x |-> x, y |-> y]

\* sum(historical_prices) / len(historical_prices)
Average(total, n) == FloatOp(Float(total), "/", Float(n))

\* round(expr, 2) in hundredths
RoundedFloat(expr) == RoundHundredths(FloatEval(expr))

\* round(((current_price - avg) / avg) * 100, 2) in hundredths, with
\* avg = total / n, every operation on doubles.
PercentOfDoubles(current_price, total, n) ==
    RoundedFloat(FloatOp(FloatOp(FloatOp(Float(current_price), "-", Average(total, n)),
                                 "/", Average(total, n)),
                         "*", Float(100)))

\* The value calculate_price_change returns for the sum `total` of n
\* historical prices.  Off a tie, and for a change of at most ten times the
\* baseline, the error of the doubles is far below the distance to the
\* nearest tie, so that the rounded double is the rounded ratio; otherwise
\* the doubles are computed.
RoundedPriceChange(current_price, total, n) ==
    LET num == current_price * n - total
    IN  IF PercentOffTie(num, total) /\ num <= 10 * total /\ -num <= 10 * total
        THEN PercentRounded(num, total)
        ELSE PercentOfDoubles(current_price, total, n)

\* round((current_price - avg) + new_release_mentions * 0.3, 2) in
\* hundredths, with avg = total / n, every operation on doubles.
RiskOfDoubles(current_price, total, n, new_release_mentions) ==
    RoundedFloat(FloatOp(FloatOp(Float(current_price), "-", Average(total, n)),
                         "+",
                         FloatOp(Float(new_release_mentions), "*",
                                 [op |-> "double", value |-> Float03])))

\* The value calculate_risk_index returns for the sum `total` of n
\* historical prices: the rounded exact value off a tie, the rounded double
\* on one.
RoundedRiskIndex(current_price, total, n, new_release_mentions) ==
    LET num == 100 * (current_price * n - total) + 30 * new_release_mentions * n
    IN  IF 2 * (num % n) # n THEN RoundHalfEven(num, n)
        ELSE RiskOfDoubles(current_price, total, n, new_release_mentions)

\* round(total / n, 2) and round(current_price - total / n, 2) in hundredths:
\* the rounded exact value off a tie, the rounded double on one.
RoundedAverage(total, n) ==
    IF 2 * ((100 * total) % n) # n THEN RoundHalfEven(100 * total, n)
    ELSE RoundedFloat(Average(total, n))

RoundedDelta(current_price, total, n) ==
    LET num == 100 * (current_price * n - total)
    IN  IF 2 * (num % n) # n THEN RoundHalfEven(num, n)
        ELSE RoundedFloat(FloatOp(Float(current_price), "-", Average(total, n)))

RECURSIVE SumPrice(_)
\* sum(historical_prices), one price for each row
SumPrice(rows) ==
    IF rows = {} THEN 0
    ELSE LET row == CHOOSE r \in rows : TRUE
         IN  row.price + SumPrice(rows \ {row})

\* The window that leaves out its later end.
_get_historical_prices_half_open(logs, clock, sku_id, days_ago, window_days) ==
    LET target_date == clock - Days(days_ago)
    IN  {row \in logs : /\ row.sku_id = sku_id
                        /\ row.recorded_at >= target_date - Days(window_days)
                        /\ row.recorded_at < target_date + Days(window_days)}

\* PriceAnalyzer._get_historical_prices: the rows whose prices it returns.
_get_historical_prices(logs, clock, sku_id, days_ago, window_days) ==
    LET target_date == clock - Days(days_ago)
        start_date == target_date - Days(window_days)
        end_date == target_date + Days(window_days)
    IN  {row \in logs : /\ row.sku_id = sku_id
                        /\ row.recorded_at >= start_date
                        /\ row.recorded_at <= end_date}

\* PriceAnalyzer.calculate_price_change: the percentage in hundredths.
calculate_price_change(logs, clock, sku_id, current_price) ==
    LET historical_prices == _get_historical_prices(logs, clock, sku_id, 7, 1)
        total == SumPrice(historical_prices)
        n == Cardinality(historical_prices)
    IN  IF current_price <= 0 THEN Raised("calculate_price_change", "ValueError")
        ELSE IF historical_prices = {}
        THEN Raised("calculate_price_change", "InsufficientDataError")
        ELSE IF total = 0 THEN Raised("calculate_price_change", "ValueError")
        ELSE Returned("calculate_price_change", RoundedPriceChange(current_price, total, n))

\* The index with every mention weighted 3.0.
calculate_risk_index_weight_3(logs, clock, sku_id, current_price, new_release_mentions) ==
    LET historical_prices == _get_historical_prices(logs, clock, sku_id, 7, 1)
        total == SumPrice(historical_prices)
        n == Cardinality(historical_prices)
    IN  IF current_price <= 0 THEN Raised("calculate_risk_index", "ValueError")
        ELSE IF new_release_mentions < 0 THEN Raised("calculate_risk_index", "ValueError")
        ELSE IF historical_prices = {}
        THEN Raised("calculate_risk_index", "InsufficientDataError")
        ELSE Returned("calculate_risk_index",
                 RoundHalfEven(100 * (current_price * n - total)
                                   + 300 * new_release_mentions * n, n))

\* RiskCalculator.calculate_risk_index: the index in hundredths,
\* (current_price - sum / len) + new_release_mentions * 0.3.
calculate_risk_index(logs, clock, sku_id, current_price, new_release_mentions) ==
    LET historical_prices == _get_historical_prices(logs, clock, sku_id, 7, 1)
        total == SumPrice(historical_prices)
        n == Cardinality(historical_prices)
    IN  IF current_price <= 0 THEN Raised("calculate_risk_index", "ValueError")
        ELSE IF new_release_mentions < 0 THEN Raised("calculate_risk_index", "ValueError")
        ELSE IF historical_prices = {}
        THEN Raised("calculate_risk_index", "InsufficientDataError")
        ELSE Returned("calculate_risk_index",
                      RoundedRiskIndex(current_price, total, n, new_release_mentions))

\* A threshold that counts the index equal to it as high risk.
check_threshold_inclusive(limit, risk_index) == risk_index <= limit

\* RiskCalculator.check_threshold with self.threshold = limit
check_threshold(limit, risk_index) == risk_index < limit

RECURSIVE SumReleaseCounts(_)
\* The loop of calculate_risk_with_sentiment over sentiment_data.items()
SumReleaseCounts(sentiment_data) ==
    IF DOMAIN sentiment_data = {} THEN 0
    ELSE LET keyword == CHOOSE k \in DOMAIN sentiment_data : TRUE
             rest == [k \in DOMAIN sentiment_data \ {keyword} |-> sentiment_data[k]]
         IN  (IF \E term \in ReleaseTerms : Contains(LowerStr(keyword), term)
              THEN sentiment_data[keyword] ELSE 0) + SumReleaseCounts(rest)

\* RiskCalculator.calculate_risk_with_sentiment: <<risk_index, is_high_risk>>
calculate_risk_with_sentiment(logs, clock, limit, sku_id, current_price, sentiment_data) ==
    LET new_release_mentions == SumReleaseCounts(sentiment_data)
        risk_index == calculate_risk_index(logs, clock, sku_id, current_price,
                                           new_release_mentions)
    IN  IF risk_index.status = "error"
        THEN Raised("calculate_risk_with_sentiment", risk_index.error)
        ELSE Returned("calculate_risk_with_sentiment",
                      <<risk_index.value, check_threshold(limit, risk_index.value)>>)

\* The latest-price query of calculate_risk_for_all_skus:
\* SELECT DISTINCT pl.sku_id, pl.price FROM price_logs pl JOIN latest
\* ON pl.recorded_at = MAX(recorded_at) WHERE pl.recorded_at >= %s
\* with start_date = datetime.now() - timedelta(days=1).  An entry observed
\* by two sources at its latest instant has two rows when the prices differ.
latest_price_rows(logs, clock) ==
    LET start_date == clock - Days(1)
    IN  {<<row.sku_id, row.price>> :
            row \in {r \in logs :
                        /\ \A other \in logs : other.sku_id = r.sku_id
                                                  => other.recorded_at <= r.recorded_at
                        /\ r.recorded_at >= start_date}}

RECURSIVE Orders(_)
\* The orders in which a statement may return rows that its ORDER BY, or
\* the lack of one, leaves unordered.
Orders(rows) ==
    IF rows = {} THEN {<<>>}
    ELSE UNION {{<<row>> \o rest : rest \in Orders(rows \ {row})} : row \in rows}

(***************************************************************************)
(* The same methods when the storage collaborator fails: `failing` is the  *)
(* set of statements, each named by the function that issues it, on which  *)
(* the storage fails: a query comes back with DatabaseError after the      *)
(* retries of db.execute_with_retry, a loader raises LoaderError.          *)
(***************************************************************************)
Queries ==
    {"_get_historical_prices", "get_new_release_mentions",
     "calculate_risk_for_all_skus", "get_price_history", "has_sufficient_data",
     "find_matching_sku", "find_similar_skus",
     "upsert_product", "insert_price_log", "insert_market_signal",
     "insert_risk_alert"}

\* calculate_price_change: the price is validated, then the window is read;
\* the except clause logs the storage error and re-raises it.
calculate_price_change_during(failing, logs, clock, sku_id, current_price) ==
    IF current_price > 0 /\ "_get_historical_prices" \in failing
    THEN Raised("calculate_price_change", "DatabaseError")
    ELSE calculate_price_change(logs, clock, sku_id, current_price)

\* calculate_risk_index: both inputs are validated, then the window is read;
\* the except clause logs the storage error and re-raises it.
calculate_risk_index_during(failing, logs, clock, sku_id, current_price, new_release_mentions) ==
    IF current_price > 0 /\ new_release_mentions >= 0
           /\ "_get_historical_prices" \in failing
    THEN Raised("calculate_risk_index", "DatabaseError")
    ELSE calculate_risk_index(logs, clock, sku_id, current_price, new_release_mentions)

\* calculate_risk_with_sentiment: whatever calculate_risk_index raises passes
\* through.
calculate_risk_with_sentiment_during(failing, logs, clock, limit, sku_id, current_price, sentiment_data) ==
    LET new_release_mentions == SumReleaseCounts(sentiment_data)
        risk_index == calculate_risk_index_during(failing, logs, clock, sku_id,
                                                  current_price, new_release_mentions)
    IN  IF risk_index.status = "error"
        THEN Raised("calculate_risk_with_sentiment", risk_index.error)
        ELSE Returned("calculate_risk_with_sentiment",
                      <<risk_index.value, check_threshold(limit, risk_index.value)>>)

RECURSIVE risk_results_from(_, _, _, _, _, _, _)
\* for row in results: sku_id, current_price = row[0], float(row[1]);
\* risk_results[sku_id] = (risk_index, is_high_risk), a later row of an
\* entry taking the place of an earlier one; `except InsufficientDataError:
\* continue` and `except Exception: continue` leave out a row whose index
\* cannot be computed.
risk_results_from(failing, logs, clock, limit, total_mentions, results, risk_results) ==
    IF results = <<>> THEN risk_results
    ELSE LET row == Head(results)
             risk_index == calculate_risk_index_during(failing, logs, clock, row[1], row[2],
                                                       total_mentions)
         IN  risk_results_from(failing, logs, clock, limit, total_mentions, Tail(results),
                 IF risk_index.status = "ok"
                 THEN (row[1] :> <<risk_index.value,
                                   check_threshold(limit, risk_index.value)>>) @@ risk_results
                 ELSE risk_results)

\* calculate_risk_for_all_skus past its mention query: the latest-price
\* query, whose failure is re-raised, and the loop over its rows in the
\* order they came back in.
risk_for_latest_prices(failing, logs, clock, limit, total_mentions) ==
    IF "calculate_risk_for_all_skus" \in failing
    THEN {Raised("calculate_risk_for_all_skus", "DatabaseError")}
    ELSE {Returned("calculate_risk_for_all_skus",
                   risk_results_from(failing, logs, clock, limit, total_mentions,
                                     results, EmptyMap)) :
             results \in Orders(latest_price_rows(logs, clock))}

\* RiskCalculator.calculate_risk_for_all_skus(days): the results the call
\* may come back with, sku_id -> <<risk_index, is_high_risk>> or the
\* exception it raises.  get_new_release_mentions(days) is called first,
\* outside the loop, and what it raises is re-raised.
calculate_risk_for_all_skus(failing, logs, table, clock, limit, days) ==
    LET mentions == get_new_release_mentions(failing, table, clock, days)
    IN  IF mentions.status = "error"
        THEN {Raised("calculate_risk_for_all_skus", mentions.error)}
        ELSE risk_for_latest_prices(failing, logs, clock, limit, SumValues(mentions.value))

\* The breakdown that raises on an empty window, as calculate_risk_index does.
get_contributing_factors_raising(failing, logs, clock, limit, sku_id, current_price, new_release_mentions) ==
    LET historical_prices == _get_historical_prices(logs, clock, sku_id, 7, 1)
        total == SumPrice(historical_prices)
        n == Cardinality(historical_prices)
    IN  IF historical_prices = {} \/ total = 0 \/ failing # {}
        THEN Raised("get_contributing_factors", "InsufficientDataError")
        ELSE Returned("get_contributing_factors",
                 [current_price |-> current_price,
                  last_week_avg_price |-> RoundedAverage(total, n),
                  price_delta |-> RoundedDelta(current_price, total, n),
                  price_change_pct |-> RoundedPriceChange(current_price, total, n),
                  new_release_mentions |-> new_release_mentions,
                  sentiment_impact |-> 30 * new_release_mentions,
                  threshold |-> limit])

\* RiskCalculator.get_contributing_factors: the breakdown for an alert
\* message.  current_price and new_release_mentions are as given, the other
\* amounts in hundredths.  Everything raised inside the try block, a storage
\* error included, comes back as a map with str(e) in its error field.
get_contributing_factors(failing, logs, clock, limit, sku_id, current_price, new_release_mentions) ==
    LET historical_prices == _get_historical_prices(logs, clock, sku_id, 7, 1)
        total == SumPrice(historical_prices)
        n == Cardinality(historical_prices)
        inputs == [current_price |-> current_price,
                   new_release_mentions |-> new_release_mentions]
    IN  IF "_get_historical_prices" \in failing
        THEN Returned("get_contributing_factors", [error |-> "DatabaseError"] @@ inputs)
        ELSE IF historical_prices = {}
        THEN Returned("get_contributing_factors",
                      [error |-> "Insufficient historical data"] @@ inputs)
        ELSE IF total = 0
        THEN Returned("get_contributing_factors",
                      [error |-> "float division by zero"] @@ inputs)
        ELSE Returned("get_contributing_factors",
                 [current_price |-> current_price,
                  last_week_avg_price |-> RoundedAverage(total, n),
                  price_delta |-> RoundedDelta(current_price, total, n),
                  price_change_pct |-> RoundedPriceChange(current_price, total, n),
                  new_release_mentions |-> new_release_mentions,
                  sentiment_impact |-> 30 * new_release_mentions,
                  threshold |-> limit])

\* ORDER BY recorded_at DESC, each row as the tuple (recorded_at, price):
\* the lists the statement may return, the rows of one instant, which two
\* sources leave, standing in any order.
NewestFirst(rows) ==
    {[i \in 1..Len(order) |-> <<order[i].recorded_at, order[i].price>>] :
        order \in {o \in Orders(rows) :
                      \A i \in 1..(Len(o) - 1) : o[i].recorded_at >= o[i + 1].recorded_at}}

\* The history that comes back empty when the query fails.
get_price_history_swallowing(failing, logs, clock, sku_id, days) ==
    IF "get_price_history" \in failing
    THEN {Returned("get_price_history", <<>>)}
    ELSE {Returned("get_price_history", history) :
             history \in NewestFirst({row \in logs : /\ row.sku_id = sku_id
                                                     /\ row.recorded_at >= clock - Days(days)})}

\* PriceAnalyzer.get_price_history: the results the call may come back
\* with, the rows of the last `days` days, newest first; the except clause
\* logs the storage error and re-raises it.
get_price_history(failing, logs, clock, sku_id, days) ==
    LET start_date == clock - Days(days)
    IN  IF "get_price_history" \in failing
        THEN {Raised("get_price_history", "DatabaseError")}
        ELSE {Returned("get_price_history", history) :
                 history \in NewestFirst({row \in logs : /\ row.sku_id = sku_id
                                                         /\ row.recorded_at >= start_date})}

\* PriceAnalyzer.has_sufficient_data asking for more than required_days of
\* history.
has_sufficient_data_strict(failing, logs, clock, sku_id, required_days) ==
    LET rows == {row \in logs : row.sku_id = sku_id}
        earliest_date == CHOOSE t \in {row.recorded_at : row \in rows} :
                             \A row \in rows : t <= row.recorded_at
        days_of_data == (clock - earliest_date) \div TicksPerDay
    IN  IF "has_sufficient_data" \in failing THEN Returned("has_sufficient_data", FALSE)
        ELSE IF rows = {} THEN Returned("has_sufficient_data", FALSE)
        ELSE Returned("has_sufficient_data", days_of_data > required_days)

\* PriceAnalyzer.has_sufficient_data: whether the entry's earliest row is at
\* least required_days whole days old; False without rows, and False when
\* the query fails (except Exception: return False).
has_sufficient_data(failing, logs, clock, sku_id, required_days) ==
    LET rows == {row \in logs : row.sku_id = sku_id}
        earliest_date == CHOOSE t \in {row.recorded_at : row \in rows} :
                             \A row \in rows : t <= row.recorded_at
        days_of_data == (clock - earliest_date) \div TicksPerDay
    IN  IF "has_sufficient_data" \in failing THEN Returned("has_sufficient_data", FALSE)
        ELSE IF rows = {} THEN Returned("has_sufficient_data", FALSE)
        ELSE Returned("has_sufficient_data", days_of_data >= required_days)

(***************************************************************************)
(* SKUMatcher (src/etl/transformers/sku_matcher.py) and upsert_product     *)
(* (src/etl/loaders/db_loader.py) over the catalog.  A NormalizedProduct   *)
(* is [brand, chipset, model_name, vram, is_oc]; a catalog row is a        *)
(* product with its id.  The matcher reads the catalog the loader writes,  *)
(* with ids handed out in increasing order.                                *)
(***************************************************************************)
\* NormalizedProduct(brand, chipset, model_name, vram, is_oc) as normalize
\* returns it.
NormalizedProduct(result) ==
    [brand |-> result.brand, chipset |-> result.chipset,
     model_name |-> result.model_name, vram |-> result.vram, is_oc |-> result.is_oc]

\* WHERE brand = %s AND chipset = %s AND model_name = %s AND vram = %s AND is_oc = %s
ExactMatches(catalog, product) ==
    {row \in catalog : /\ row.brand = product.brand
                       /\ row.chipset = product.chipset
                       /\ row.model_name = product.model_name
                       /\ row.vram = product.vram
                       /\ row.is_oc = product.is_oc}

\* The lookup that settles for the newest row of the product's brand.
find_matching_sku_newest_of_brand(failing, catalog, product) ==
    LET matches == {row \in catalog : row.brand = product.brand}
    IN  IF "find_matching_sku" \in failing
        THEN Raised("find_matching_sku", "SKUMatchError")
        ELSE IF matches = {} THEN Returned("find_matching_sku", <<>>)
        ELSE Returned("find_matching_sku",
                 <<(CHOOSE row \in matches :
                        \A other \in matches : other.id <= row.id).id>>)

\* SKUMatcher.find_matching_sku: <<id>> of the row the query returns (LIMIT 1;
\* the catalog's unique key leaves at most one), <<>> for None.
find_matching_sku(failing, catalog, product) ==
    LET matches == ExactMatches(catalog, product)
    IN  IF "find_matching_sku" \in failing
        THEN Raised("find_matching_sku", "SKUMatchError")
        ELSE IF matches = {} THEN Returned("find_matching_sku", <<>>)
        ELSE Returned("find_matching_sku", <<(CHOOSE row \in matches : TRUE).id>>)

\* CASE WHEN brand = %s AND chipset = %s THEN 3 WHEN chipset = %s THEN 2
\*      WHEN brand = %s THEN 1 ELSE 0 END
similarity_score(row, product) ==
    IF row.brand = product.brand /\ row.chipset = product.chipset THEN 3
    ELSE IF row.chipset = product.chipset THEN 2
    ELSE IF row.brand = product.brand THEN 1
    ELSE 0

RECURSIVE OrderedRows(_, _, _)
\* ORDER BY similarity_score DESC, id DESC LIMIT %s
OrderedRows(rows, product, limit) ==
    IF rows = {} \/ limit = 0 THEN <<>>
    ELSE LET first == CHOOSE row \in rows : \A other \in rows :
                          \/ similarity_score(other, product)
                                 < similarity_score(row, product)
                          \/ /\ similarity_score(other, product)
                                    = similarity_score(row, product)
                             /\ other.id <= row.id
         IN  <<[sku_id |-> first.id, brand |-> first.brand,
                chipset |-> first.chipset, model_name |-> first.model_name,
                vram |-> first.vram, is_oc |-> first.is_oc,
                similarity_score |-> similarity_score(first, product)]>>
                 \o OrderedRows(rows \ {first}, product, limit - 1)

\* The ranking that asks for the same brand and does not look at the chipset.
find_similar_skus_same_brand(failing, catalog, product, limit) ==
    IF "find_similar_skus" \in failing
    THEN Raised("find_similar_skus", "SKUMatchError")
    ELSE Returned("find_similar_skus",
             OrderedRows({row \in catalog : row.brand = product.brand},
                         product, limit))

\* SKUMatcher.find_similar_skus: the list of similar rows, best first.
find_similar_skus(failing, catalog, product, limit) ==
    IF "find_similar_skus" \in failing
    THEN Raised("find_similar_skus", "SKUMatchError")
    ELSE Returned("find_similar_skus",
             OrderedRows({row \in catalog : \/ row.brand = product.brand
                                            \/ row.chipset = product.chipset},
                         product, limit))

\* The suggestion that always carries a list of similar rows and a note, an
\* empty list when the lookup fails or finds nothing.
suggest_new_sku_always_listing(failing, catalog, product) ==
    LET similar_skus == find_similar_skus(failing, catalog, product, 3)
        found == IF similar_skus.status = "ok" THEN similar_skus.value ELSE <<>>
    IN  Returned("suggest_new_sku",
            [action |-> "create_new_sku",
             reason |-> "No matching SKU found in database",
             product_data |-> product,
             suggested_fields |->
                 [category |-> <<"U+ADF8", "U+B798", "U+D53D", "U+CE74", "U+B4DC">>,
                  brand |-> product.brand, chipset |-> product.chipset,
                  model_name |-> product.model_name, vram |-> product.vram,
                  is_oc |-> product.is_oc],
             similar_existing_skus |-> found,
             note |-> [found |-> Len(found)]])

\* SKUMatcher.suggest_new_sku: the suggestion, with the similar rows when
\* the lookup finds some; a failing lookup is passed over.
suggest_new_sku(failing, catalog, product) ==
    LET suggestion ==
            [action |-> "create_new_sku",
             reason |-> "No matching SKU found in database",
             product_data |-> product,
             suggested_fields |->
                 [category |-> <<"U+ADF8", "U+B798", "U+D53D", "U+CE74", "U+B4DC">>,
                  brand |-> product.brand, chipset |-> product.chipset,
                  model_name |-> product.model_name, vram |-> product.vram,
                  is_oc |-> product.is_oc]]
        similar_skus == find_similar_skus(failing, catalog, product, 3)
    IN  IF similar_skus.status = "ok" /\ similar_skus.value # <<>>
        THEN Returned("suggest_new_sku",
                 suggestion @@ [similar_existing_skus |-> similar_skus.value,
                                note |-> [found |-> Len(similar_skus.value)]])
        ELSE Returned("suggest_new_sku", suggestion)

\* The first statement that takes a failing lookup for a lookup without
\* match.
match_or_suggest_exact_despite_failure(failing, catalog, product) ==
    LET sku_id == find_matching_sku(failing, catalog, product)
    IN  IF sku_id.status = "ok" /\ sku_id.value # <<>>
        THEN Returned("match_or_suggest",
                 [action |-> "use_existing", sku_id |-> sku_id.value[1],
                  product_data |-> product])
        ELSE NoCall

\* SKUMatcher.match_or_suggest up to its first return:
\*     sku_id = self.find_matching_sku(product)
\*     if sku_id is not None: return {'action': 'use_existing', ...}
\* The lookup is a transaction of its own.  NoCall when the method goes on
\* to suggest_new_sku.
match_or_suggest_exact(failing, catalog, product) ==
    LET sku_id == find_matching_sku(failing, catalog, product)
    IN  IF sku_id.status = "error" THEN Raised("match_or_suggest", sku_id.error)
        ELSE IF sku_id.value # <<>>
        THEN Returned("match_or_suggest",
                 [action |-> "use_existing", sku_id |-> sku_id.value[1],
                  product_data |-> product])
        ELSE NoCall

\* return self.suggest_new_sku(product): the second transaction of
\* match_or_suggest, over the catalog as it is by then.
match_or_suggest_suggested(failing, catalog, product) ==
    Returned("match_or_suggest", suggest_new_sku(failing, catalog, product).value)

\* SKUMatcher.match_or_suggest with nothing committed by others between its
\* two transactions.
match_or_suggest(failing, catalog, product) ==
    LET first == match_or_suggest_exact(failing, catalog, product)
    IN  IF first = NoCall THEN match_or_suggest_suggested(failing, catalog, product)
        ELSE first

\* batch_match(products) when it is called: results = [].  pc names the
\* query the product at hand is to run next, the product being the one
\* after those that have a result.
batch_match_called(product_list) ==
    [op |-> "batch_match", pc |-> "exact", product_list |-> product_list,
     results |-> <<>>]

\* try: results.append(self.match_or_suggest(product))
\* except SKUMatchError as e: results.append({'action': 'error', ...})
batch_match_entry(result, product) ==
    IF result.status = "error"
    THEN [action |-> "error", error |-> result.error, product_data |-> product]
    ELSE result.value

\* The entries of the products left when the batch gives up at `product`.
batch_match_given_up(job, result) ==
    [i \in 1..(Len(job.product_list) - Len(job.results)) |->
        batch_match_entry(result, job.product_list[Len(job.results) + i])]

\* The loop that gives up at the first product whose match raises: every
\* product left gets the error.
batch_match_step_aborting(failing, catalog, job) ==
    LET product == job.product_list[Len(job.results) + 1]
        result == IF job.pc = "exact"
                  THEN match_or_suggest_exact(failing, catalog, product)
                  ELSE match_or_suggest_suggested(failing, catalog, product)
    IN  IF result = NoCall THEN [job EXCEPT !.pc = "similar"]
        ELSE IF result.status = "error"
        THEN [job EXCEPT !.pc = "exact",
                         !.results = @ \o batch_match_given_up(job, result)]
        ELSE [job EXCEPT !.pc = "exact",
                         !.results = Append(@, batch_match_entry(result, product))]

\* One transaction of the loop of SKUMatcher.batch_match: the exact-match
\* query of the product at hand or, after that found nothing, the query
\* for similar entries, with the entry appended to results once
\* match_or_suggest has come back.
batch_match_step(failing, catalog, job) ==
    LET product == job.product_list[Len(job.results) + 1]
        result == IF job.pc = "exact"
                  THEN match_or_suggest_exact(failing, catalog, product)
                  ELSE match_or_suggest_suggested(failing, catalog, product)
    IN  IF result = NoCall THEN [job EXCEPT !.pc = "similar"]
        ELSE [job EXCEPT !.pc = "exact",
                         !.results = Append(@, batch_match_entry(result, product))]

RECURSIVE batch_match_from(_, _, _)
\* The batch run to its end with nothing committed by others meanwhile.
batch_match_from(failing, catalog, job) ==
    IF Len(job.results) = Len(job.product_list)
    THEN Returned("batch_match", job.results)
    ELSE batch_match_from(failing, catalog, batch_match_step(failing, catalog, job))

\* SKUMatcher.batch_match with nothing committed by others meanwhile: one
\* result for each product, an error entry for a product whose match raised
\* SKUMatchError.
batch_match(failing, catalog, product_list) ==
    batch_match_from(failing, catalog, batch_match_called(product_list))

\* The id the INSERT of a new row gets.
NextId(catalog) ==
    IF catalog = {} THEN 1
    ELSE 1 + (CHOOSE id \in {row.id : row \in catalog} :
                  \A row \in catalog : row.id <= id)

\* The id upsert_product returns: RETURNING id
upserted_id(catalog, product) ==
    LET conflict == {row \in catalog : /\ row.brand = product.brand
                                       /\ row.model_name = product.model_name}
    IN  IF conflict = {} THEN NextId(catalog)
        ELSE (CHOOSE row \in conflict : TRUE).id

\* upsert_product: INSERT ... ON CONFLICT (brand, model_name) DO UPDATE SET
\* chipset, vram, is_oc; the catalog after the statement.
upsert_product(catalog, product) ==
    LET conflict == {row \in catalog : /\ row.brand = product.brand
                                       /\ row.model_name = product.model_name}
    IN  (catalog \ conflict) \cup
            {[id |-> upserted_id(catalog, product), brand |-> product.brand,
              chipset |-> product.chipset, model_name |-> product.model_name,
              vram |-> product.vram, is_oc |-> product.is_oc]}

\* The two price sources a PriceData names, '\uB2E4\uB098\uC640' and '\uC5D0\uB204\uB9AC'.
Danawa == <<"U+B2E4", "U+B098", "U+C640">>
Enuri == <<"U+C5D0", "U+B204", "U+B9AC">>
Sources == {Danawa, Enuri}

\* insert_price_log: INSERT ... ON CONFLICT (sku_id, source, recorded_at)
\* DO UPDATE SET price, source_url, price_change_pct
insert_price_log(logs, sku_id, price_data) ==
    LET conflict == {row \in logs : /\ row.sku_id = sku_id
                                    /\ row.source = price_data.source
                                    /\ row.recorded_at = price_data.recorded_at}
    IN  (logs \ conflict) \cup
            {[sku_id |-> sku_id, source |-> price_data.source,
              recorded_at |-> price_data.recorded_at,
              price |-> price_data.price,
              price_change_pct |-> price_data.price_change_pct]}

(***************************************************************************)
(* ETLPipeline.load_prices (src/etl/main.py).  Every statement of the loop *)
(* is a transaction of its own: upsert_product, the baseline query of      *)
(* calculate_price_change and insert_price_log each take a connection,     *)
(* run and commit.  A running loader is [op, pc, todo, sku_mapping, ...]:  *)
(* pc names the statement it is about to run for Head(todo).               *)
(***************************************************************************)
\* The loop moves on to the next PriceData, or ends after the last.
load_prices_next(job) ==
    IF Len(job.todo) = 1 THEN NoJob
    ELSE [op |-> "load_prices", pc |-> "sku", todo |-> Tail(job.todo),
          sku_mapping |-> job.sku_mapping]

\* "Product wasn't matched, need to create it first": upsert_product of the
\* normalized listing, whose id the mapping remembers.  When normalize or
\* upsert_product raised, the error is recorded and the item left out.
load_prices_create(failing, catalog, job, normalized) ==
    IF normalized.status = "error" \/ "upsert_product" \in failing
    THEN [products |-> catalog, job |-> load_prices_next(job)]
    ELSE [products |-> upsert_product(catalog, NormalizedProduct(normalized)),
          job |-> [pc |-> "change",
                   sku_id |-> upserted_id(catalog, NormalizedProduct(normalized)),
                   sku_mapping |-> (Head(job.todo).product_name :>
                                        upserted_id(catalog, NormalizedProduct(normalized)))
                                       @@ job.sku_mapping] @@ job]

\* "Get or create SKU ID": sku_mapping.get(price_data.product_name), or
\* the product created for the listing.
load_prices_sku(failing, catalog, job) ==
    IF Head(job.todo).product_name \in DOMAIN job.sku_mapping
    THEN [products |-> catalog,
          job |-> [pc |-> "change",
                   sku_id |-> job.sku_mapping[Head(job.todo).product_name]] @@ job]
    ELSE load_prices_create(failing, catalog, job, normalize(Head(job.todo).product_name))

\* "Calculate price change if possible": InsufficientDataError leaves the
\* percentage None; any other error is recorded and the item left out.
load_prices_change(failing, logs, clock, job) ==
    LET change == calculate_price_change_during(failing, logs, clock, job.sku_id,
                                                Head(job.todo).price)
    IN  IF change.status = "ok"
        THEN [pc |-> "insert", price_change_pct |-> <<change.value>>] @@ job
        ELSE IF change.error = "InsufficientDataError"
        THEN [pc |-> "insert", price_change_pct |-> <<>>] @@ job
        ELSE load_prices_next(job)

\* "Insert price log": the row is stored with the percentage computed for
\* it; a failing insert is recorded and the item left out.
load_prices_insert(failing, logs, job) ==
    IF "insert_price_log" \in failing THEN logs
    ELSE insert_price_log(logs, job.sku_id,
             [Head(job.todo) EXCEPT !.price_change_pct = job.price_change_pct])

\* The next statement of the loop, run at `clock` over the catalog and the
\* price rows as they are then.
load_prices_step(failing, catalog, logs, clock, job) ==
    CASE job.pc = "sku" ->
             [price_logs |-> logs] @@ load_prices_sku(failing, catalog, job)
      [] job.pc = "change" ->
             [products |-> catalog, price_logs |-> logs,
              job |-> load_prices_change(failing, logs, clock, job)]
      [] job.pc = "insert" ->
             [products |-> catalog,
              price_logs |-> load_prices_insert(failing, logs, job),
              job |-> load_prices_next(job)]

RECURSIVE load_prices_from(_, _, _, _, _)
\* The loader run to its end with nothing committed by others meanwhile.
load_prices_from(failing, catalog, logs, clock, job) ==
    IF job = NoJob THEN [products |-> catalog, price_logs |-> logs]
    ELSE LET after == load_prices_step(failing, catalog, logs, clock, job)
         IN  load_prices_from(failing, after.products, after.price_logs, clock, after.job)

\* The loader when load_prices(price_data_list, sku_mapping) is called.
load_prices_called(price_data_list, sku_mapping) ==
    IF price_data_list = <<>> THEN NoJob
    ELSE [op |-> "load_prices", pc |-> "sku", todo |-> price_data_list,
          sku_mapping |-> sku_mapping]

\* ETLPipeline.load_prices(price_data_list, sku_mapping) run at `clock`
\* with nothing committed by others meanwhile: the catalog and the
\* price_logs table it leaves.
load_prices(failing, catalog, logs, clock, price_data_list, sku_mapping) ==
    load_prices_from(failing, catalog, logs, clock,
                     load_prices_called(price_data_list, sku_mapping))

(***************************************************************************)
(* Price analysis and risk assessment over a store the crawler fills day   *)
(* by day.                                                                 *)
(***************************************************************************)
MaxDay == 9
MaxLogs == 2
SkuIds == {1, 2}
OfferedPrices == {0, 950000, 1000000}
\* A price 0.005 % above a baseline of 1000000 KRW: the exact change lies
\* halfway between 0.00 and 0.01.
TiePrice == 1000050
Mentions == {0, 10}
Thresholds == {risk_threshold, -4999700}
SentimentData ==
    {NewRelease :> 10 @@ PriceDrop :> 5,
     PriceDrop :> 5,
     Leak :> 3 @@ <<"5", "0", "7", "0", " ", "r", "e", "l", "e", "a", "s", "e", " ", "d", "a", "t", "e">> :> 10 @@ Issues :> 1 @@ <<"U", "s", "e", "d", " ", "M", "a", "r", "k", "e", "t">> :> 2,
     <<"n", "e", "w", " ", "r", "e", "l", "e", "a", "s", "e">> :> 4 @@ <<"R", "T", "X", " ", "5", "0", "7", "0", " ", "L", "E", "A", "K", "S">> :> 2 @@ <<"R", "T", "X", " ", "4", "0", "7", "0", " ", "S", "u", "p", "e", "r">> :> 1}

RiskInit ==
    /\ IdleNormalizer
    /\ signals = <<>>
    /\ now = 0
    /\ price_logs = {}
    /\ market_signals = {}
    /\ threshold \in Thresholds
    /\ products = {}
    /\ skus = {}
    /\ outage = {}
    /\ ret = NoCall
    /\ risk_alerts = <<>>
    /\ signal_job = NoJob
    /\ price_job = NoJob
    /\ match_job = NoJob

\* A day passes.  The clock starts with the first load: an empty store looks
\* the same on every day.
NextDay ==
    /\ DateOf(now) < MaxDay
    /\ price_logs # {} \/ market_signals # {}
    /\ now' = now + Days(1)
    /\ ret' = NoCall
    /\ UNCHANGED <<jobVars, alertVars, normVars, signals, price_logs, market_signals, threshold, products, skus, outage>>

\* A listing of the crawler that normalizes to a product.
DualListing == <<"A", "S", "U", "S", " ", "D", "u", "a", "l", " ", "R", "T", "X", " ", "4", "0", "7", "0", " ", "S", "u", "p", "e", "r", " ", "O", "C", " ", "1", "2", "G", "B">>

\* The PriceData of a price crawled from `source` at `recorded_at`.
PriceData(source, price, recorded_at) ==
    [product_name |-> DualListing, price |-> price, source |-> source,
     recorded_at |-> recorded_at, price_change_pct |-> <<>>]

\* sku_mapping as transform_products leaves it for the listing: the id of
\* the entry matched, <<id>>, or no id, <<>>.
SkuMapping(sku_id) ==
    IF sku_id = <<>> THEN EmptyMap ELSE DualListing :> sku_id[1]

\* The catalog, the price rows and the loader a statement of load_prices
\* leaves.
Loaded(after) ==
    /\ products' = after.products
    /\ price_logs' = after.price_logs
    /\ price_job' = after.job
    /\ ret' = NoCall

\* ETLPipeline.load_prices(price_data_list, sku_mapping) is called and
\* resolves the id of its first PriceData.
LoadPrices(price_data_list, sku_mapping) ==
    /\ price_job = NoJob
    /\ price_data_list # <<>>
    /\ Loaded(load_prices_step(outage, products, price_logs, now,
                               load_prices_called(price_data_list, sku_mapping)))
    /\ UNCHANGED <<signal_job, match_job, alertVars, normVars, signals, now, market_signals, threshold, skus, outage>>

\* The running load_prices runs its next statement.
LoadNextPrice ==
    /\ price_job # NoJob
    /\ price_job.op = "load_prices"
    /\ Loaded(load_prices_step(outage, products, price_logs, now, price_job))
    /\ UNCHANGED <<signal_job, match_job, alertVars, normVars, signals, now, market_signals, threshold, skus, outage>>

\* The price row of price_data, stored for the entry the listing was
\* matched to, or for a product yet to be created, leaves no more than
\* `most` rows.
LogsWithin(sku_id, price_data, most) ==
    IF sku_id = <<>> THEN Cardinality(price_logs) < most
    ELSE Cardinality(insert_price_log(price_logs, sku_id[1], price_data)) <= most

\* PriceAnalyzer.calculate_price_change(sku_id, current_price)
CalculatePriceChange(sku_id, current_price) ==
    /\ Callable("calculate_price_change", [sku_id |-> sku_id, current_price |-> current_price])
    /\ ret' = calculate_price_change_during(outage, price_logs, now, sku_id,
                                             current_price) @@
              [sku_id |-> sku_id, current_price |-> current_price]
    /\ UNCHANGED <<jobVars, alertVars, normVars, signals, storeVars>>

\* RiskCalculator.calculate_risk_index(sku_id, current_price, new_release_mentions)
CalculateRiskIndex(sku_id, current_price, new_release_mentions) ==
    /\ Callable("calculate_risk_index", [sku_id |-> sku_id, current_price |-> current_price, new_release_mentions |-> new_release_mentions])
    /\ ret' = calculate_risk_index_during(outage, price_logs, now, sku_id,
                                          current_price, new_release_mentions) @@
              [sku_id |-> sku_id, current_price |-> current_price,
               new_release_mentions |-> new_release_mentions]
    /\ UNCHANGED <<jobVars, alertVars, normVars, signals, storeVars>>

\* RiskCalculator.check_threshold(risk_index)
CheckThreshold(risk_index) ==
    /\ ret = NoCall
    /\ ret' = Returned("check_threshold", check_threshold(threshold, risk_index)) @@
              [risk_index |-> risk_index]
    /\ UNCHANGED <<jobVars, alertVars, normVars, signals, storeVars>>

\* RiskCalculator.calculate_risk_with_sentiment(sku_id, current_price, sentiment_data)
CalculateRiskWithSentiment(sku_id, current_price, sentiment_data) ==
    /\ Callable("calculate_risk_with_sentiment", [sku_id |-> sku_id, current_price |-> current_price, sentiment_data |-> sentiment_data])
    /\ ret' = calculate_risk_with_sentiment_during(outage, price_logs, now, threshold,
                                                   sku_id, current_price,
                                                   sentiment_data) @@
              [sku_id |-> sku_id, current_price |-> current_price,
               sentiment_data |-> sentiment_data]
    /\ UNCHANGED <<jobVars, alertVars, normVars, signals, storeVars>>

\* RiskCalculator.calculate_risk_for_all_skus(days)
CalculateRiskForAllSkus(days) ==
    /\ Callable("calculate_risk_for_all_skus", [days |-> days])
    /\ \E result \in calculate_risk_for_all_skus(outage, price_logs, market_signals, now,
                                                 threshold, days) :
           ret' = result @@ [days |-> days]
    /\ UNCHANGED <<jobVars, alertVars, normVars, signals, storeVars>>

\* PriceAnalyzer.get_price_history(sku_id, days)
GetPriceHistory(sku_id, days) ==
    /\ Callable("get_price_history", [sku_id |-> sku_id, days |-> days])
    /\ \E result \in get_price_history(outage, price_logs, now, sku_id, days) :
           ret' = result @@ [sku_id |-> sku_id, days |-> days]
    /\ UNCHANGED <<jobVars, alertVars, normVars, signals, storeVars>>

\* PriceAnalyzer.has_sufficient_data(sku_id, required_days)
HasSufficientData(sku_id, required_days) ==
    /\ Callable("has_sufficient_data", [sku_id |-> sku_id, required_days |-> required_days])
    /\ ret' = has_sufficient_data(outage, price_logs, now, sku_id, required_days) @@
              [sku_id |-> sku_id, required_days |-> required_days]
    /\ UNCHANGED <<jobVars, alertVars, normVars, signals, storeVars>>

\* RiskCalculator.get_contributing_factors(sku_id, current_price, new_release_mentions)
GetContributingFactors(sku_id, current_price, new_release_mentions) ==
    /\ Callable("get_contributing_factors", [sku_id |-> sku_id, current_price |-> current_price, new_release_mentions |-> new_release_mentions])
    /\ ret' = get_contributing_factors(outage, price_logs, now, threshold, sku_id,
                                       current_price, new_release_mentions) @@
              [sku_id |-> sku_id, current_price |-> current_price,
               new_release_mentions |-> new_release_mentions]
    /\ UNCHANGED <<jobVars, alertVars, normVars, signals, storeVars>>

RiskNext ==
    \/ price_job = NoJob /\ NextDay
    \/ \E sku_id \in SkuIds, source \in Sources, price \in OfferedPrices :
           /\ LogsWithin(<<sku_id>>, PriceData(source, price, now), MaxLogs)
           /\ LoadPrices(<<PriceData(source, price, now)>>, SkuMapping(<<sku_id>>))
    \/ \E sku_id \in SkuIds, price \in OfferedPrices \cup {TiePrice} :
           /\ price_job = NoJob
           /\ CalculatePriceChange(sku_id, price)
    \/ \E sku_id \in SkuIds, price \in OfferedPrices, m \in Mentions :
           /\ price_job = NoJob
           /\ CalculateRiskIndex(sku_id, price, m)
    \/ \E risk_index \in {threshold - 1, threshold, threshold + 1} :
           /\ price_job = NoJob
           /\ CheckThreshold(risk_index)
    \/ \E sku_id \in SkuIds, price \in OfferedPrices, data \in SentimentData :
           /\ price_job = NoJob
           /\ CalculateRiskWithSentiment(sku_id, price, data)
    \/ \E days \in WindowDays :
           /\ price_job = NoJob
           /\ CalculateRiskForAllSkus(days)
    \/ \E sku_id \in SkuIds, price \in OfferedPrices, m \in Mentions :
           /\ price_job = NoJob
           /\ GetContributingFactors(sku_id, price, m)
    \/ LoadNextPrice

SpecRisk == RiskInit /\ [][RiskNext]_vars

(***************************************************************************)
(* The batch assessment over a store that price crawls and collection runs *)
(* both fill.  The stages of one pipeline run follow one another: while    *)
(* calculate_risk_for_all_skus is between two of its queries no loader     *)
(* commits and no other call is made.  The alert job further down is       *)
(* checked with loaders committing between its queries.                    *)
(***************************************************************************)
MaxBatchLogs == 2
MaxBatchRows == 1
MaxBatchCount == 2

\* A run finds one post, published now, that mentions a keyword.
BatchSignalsAt(clock) ==
    [keyword : {NewRelease, PriceDrop},
     post_url : {"https://reddit.com/r/nvidia/comments/abc123"},
     timestamp : {clock}]

BatchInit == IdleNormalizer /\ IdleAnalytics

BatchNext ==
    \/ price_job = NoJob /\ NextDay
    \/ \E sku_id \in SkuIds, source \in Sources, price \in OfferedPrices :
           /\ LogsWithin(<<sku_id>>, PriceData(source, price, now), MaxBatchLogs)
           /\ LoadPrices(<<PriceData(source, price, now)>>, SkuMapping(<<sku_id>>))
    \/ \E signal \in BatchSignalsAt(now) :
           /\ price_job = NoJob
           /\ Cardinality(insert_market_signal(market_signals, signal)) <= MaxBatchRows
           /\ \A row \in insert_market_signal(market_signals, signal) :
                  row.mention_count <= MaxBatchCount
           /\ LoadMarketSignals(<<signal>>)
    \/ \E days \in WindowDays :
           /\ price_job = NoJob
           /\ CalculateRiskForAllSkus(days)
    \/ LoadNextPrice

SpecBatch == BatchInit /\ [][BatchNext]_vars

(***************************************************************************)
(* What the price and risk operations are to return, said over the rows of *)
(* the store.                                                              *)
(***************************************************************************)
\* The entry's observations recorded 6 to 8 days ago, both ends included.
BaselineWindow(sku_id) ==
    {row \in price_logs : /\ row.sku_id = sku_id
                          /\ now - row.recorded_at >= Days(6)
                          /\ now - row.recorded_at <= Days(8)}

Abs(x) == IF x < 0 THEN -x ELSE x

\* value is num / den rounded to the nearest integer (den > 0).
IsNearest(value, num, den) == 2 * Abs(value * den - num) <= den

\* value, in hundredths, is num / den * 100 rounded to 2 decimals.
IsNearestPercent(value, num, den) ==
    LET whole == (100 * num) \div den
    IN  IsNearest(value - 100 * whole, 100 * ((100 * num) % den), den)

Called(op) == ret # NoCall /\ ret.op = op

\* C6: with a non-empty baseline window, a positive current price and
\* mentions >= 0, calculate_risk_index returns (currentPrice - baseline) +
\* 0.3 * mentions rounded to 2 decimals, the baseline being the mean of the
\* entry's prices recorded 6 to 8 days ago; baseline 1,000,000, current
\* 950,000 and 10 mentions give -49,997.00.
C6_RiskIndexFormula ==
    (/\ Called("calculate_risk_index")
     /\ ret.current_price > 0
     /\ ret.new_release_mentions >= 0
     /\ BaselineWindow(ret.sku_id) # {}) =>
        LET window == BaselineWindow(ret.sku_id)
            n == Cardinality(window)
            total == SumPrice(window)
        IN  /\ ret.status = "ok"
            /\ IsNearest(ret.value,
                         100 * (ret.current_price * n - total)
                             + 30 * ret.new_release_mentions * n, n)
            /\ (/\ \A row \in window : row.price = 1000000
                /\ ret.current_price = 950000
                /\ ret.new_release_mentions = 10) => ret.value = -4999700

\* The example of the specification was computed.
C6_Witness ==
    /\ Called("calculate_risk_index")
    /\ BaselineWindow(ret.sku_id) # {}
    /\ \A row \in BaselineWindow(ret.sku_id) : row.price = 1000000
    /\ ret.current_price = 950000
    /\ ret.new_release_mentions = 10
    /\ ret.status = "ok"
    /\ ret.value = -4999700

\* C7: check_threshold(riskIndex) is true exactly when riskIndex < threshold,
\* an index equal to the threshold not being high risk, and
\* calculate_risk_with_sentiment and calculate_risk_for_all_skus report the
\* flag of exactly the index they return, the batch also in every map its
\* loop over the latest prices builds for a mention count.
C7_HighRiskIffBelowThreshold ==
    /\ Called("check_threshold") =>
           /\ ret.value <=> ret.risk_index < threshold
           /\ ret.risk_index = threshold => ~ret.value
    /\ (Called("calculate_risk_with_sentiment") /\ ret.status = "ok") =>
           (ret.value[2] <=> ret.value[1] < threshold)
    /\ (Called("calculate_risk_for_all_skus") /\ ret.status = "ok") =>
           \A sku_id \in DOMAIN ret.value :
               ret.value[sku_id][2] <=> ret.value[sku_id][1] < threshold
    /\ \A m \in Mentions :
           \A results \in risk_for_latest_prices(outage, price_logs, now, threshold, m) :
               \A sku_id \in DOMAIN results.value :
                   results.value[sku_id][2] <=> results.value[sku_id][1] < threshold

\* An index equal to the threshold was checked and found not high risk.
C7_Witness ==
    /\ Called("check_threshold")
    /\ ret.risk_index = threshold
    /\ ~ret.value

\* C8: for a fixed entry, store, current price and threshold, more release
\* mentions never make the assessment less risky: the index computed with
\* m' >= m mentions is not greater than the one computed with m, and an
\* entry that is high risk with m mentions is high risk with m'.
C8_MentionsReinforceRisk ==
    (Called("calculate_risk_index") /\ ret.status = "ok") =>
        \A more \in Mentions :
            more >= ret.new_release_mentions =>
                LET with_more == calculate_risk_index(price_logs, now, ret.sku_id,
                                                      ret.current_price, more)
                IN  /\ with_more.value <= ret.value
                    /\ check_threshold(threshold, ret.value)
                           => check_threshold(threshold, with_more.value)

\* C9: for a current price > 0, calculate_price_change raises
\* InsufficientDataError exactly when the entry has no observation recorded
\* in the closed interval [now - 8 days, now - 6 days]; otherwise it returns
\* (current - baseline) / baseline * 100 rounded to 2 decimals, the baseline
\* being the mean of exactly the entry's observations in that interval.
C9_PriceChangeOverBaselineWindow ==
    (Called("calculate_price_change") /\ ret.current_price > 0) =>
        LET window == BaselineWindow(ret.sku_id)
            n == Cardinality(window)
            total == SumPrice(window)
        IN  /\ ret.status = "error" <=> window = {}
            /\ ret.status = "error" => ret.error = "InsufficientDataError"
            /\ ret.status = "ok" =>
                   IsNearestPercent(ret.value, ret.current_price * n - total, total)

\* The change was computed against the mean of two different prices, one
\* recorded exactly 6 days ago.
C9_Witness ==
    /\ Called("calculate_price_change")
    /\ ret.status = "ok"
    /\ Cardinality(BaselineWindow(ret.sku_id)) = 2
    /\ \E a, b \in BaselineWindow(ret.sku_id) :
           a.price # b.price /\ now - a.recorded_at = Days(6)
    /\ ret.value # 0

\* The rows of the release keywords dated inside the trailing window.
ReleaseRowsInWindow(days) ==
    {row \in market_signals : /\ IsReleaseKeyword(row.keyword)
                              /\ row.date >= DateOf(now - Days(days))}

HasRecentObservation(sku_id) ==
    \E row \in price_logs : row.sku_id = sku_id /\ now - row.recorded_at <= Days(1)

\* The entry's most recent price: the price of its latest observation, of
\* either one when two sources observed it at the same instant.
MostRecentPrices(sku_id) ==
    {row.price : row \in {latest \in price_logs :
                              /\ latest.sku_id = sku_id
                              /\ \A other \in price_logs :
                                     other.sku_id = sku_id =>
                                         other.recorded_at <= latest.recorded_at}}

\* C10: calculate_risk_for_all_skus(days) returns a map whose keys are
\* exactly the entries with a price observation in the last 24 hours and at
\* least one observation in the baseline window; each value is
\* (calculate_risk_index(entry, its most recent price, M), check_threshold
\* of that index), M being the catalog-wide sum of release-mention counts
\* over the trailing days; entries without baseline data are left out and
\* the batch never fails.
C10_BatchCoversEntriesWithBaseline ==
    Called("calculate_risk_for_all_skus") =>
        LET M == SumMentionCount(ReleaseRowsInWindow(ret.days))
        IN  /\ ret.status = "ok"
            /\ DOMAIN ret.value =
                   {sku_id \in SkuIds :
                       HasRecentObservation(sku_id) /\ BaselineWindow(sku_id) # {}}
            /\ \A sku_id \in DOMAIN ret.value :
                   \E price \in MostRecentPrices(sku_id) :
                       LET index == calculate_risk_index(price_logs, now, sku_id, price, M)
                       IN  ret.value[sku_id] =
                               <<index.value, check_threshold(threshold, index.value)>>

(***************************************************************************)
(* The analytics methods called with any input, valid or not, over a store *)
(* whose queries may fail.                                                 *)
(***************************************************************************)
MaxOutageDay == 8
MaxOutageLogs == 2
CalledSkuIds == {1}
CalledPrices == {-950000, 0, 950000}
CalledMentions == {-1, 0, 10}
CalledSentimentData == {NewRelease :> 10 @@ PriceDrop :> 5, NewRelease :> -1}

\* One statement of the analytics, the matcher or the price loader fails,
\* or the whole database is out of reach.
Outages ==
    {{query} : query \in Queries \ {"insert_market_signal", "insert_risk_alert"}}
        \cup {Queries}

\* The outages during which prices are loaded.
LoadOutages ==
    {{}, {"_get_historical_prices"}, {"upsert_product"}, {"insert_price_log"}, Queries}

OutageInit == IdleNormalizer /\ IdleAnalytics

(***************************************************************************)
(* The pipeline's product loop over the catalog: a listing is normalized,  *)
(* matched against the catalog and loaded into it.                         *)
(***************************************************************************)
\* SKUMatcher.find_matching_sku(product)
FindMatchingSku(product) ==
    /\ Callable("find_matching_sku", [product |-> product])
    /\ ret' = find_matching_sku(outage, skus, product) @@ [product |-> product]
    /\ UNCHANGED <<jobVars, alertVars, normVars, signals, storeVars>>

\* SKUMatcher.find_similar_skus(product, limit)
FindSimilarSkus(product, limit) ==
    /\ Callable("find_similar_skus", [product |-> product, limit |-> limit])
    /\ ret' = find_similar_skus(outage, skus, product, limit) @@
              [product |-> product, limit |-> limit]
    /\ UNCHANGED <<jobVars, alertVars, normVars, signals, storeVars>>

\* SKUMatcher.suggest_new_sku(product)
SuggestNewSku(product) ==
    /\ Callable("suggest_new_sku", [product |-> product])
    /\ ret' = suggest_new_sku(outage, skus, product) @@ [product |-> product]
    /\ UNCHANGED <<jobVars, alertVars, normVars, signals, storeVars>>

\* SKUMatcher.match_or_suggest(product) is called and runs its exact-match
\* query: it returns, or goes on to the suggestion.
MatchOrSuggest(product) ==
    /\ match_job = NoJob
    /\ Callable("match_or_suggest", [product |-> product])
    /\ LET first == match_or_suggest_exact(outage, skus, product)
       IN  IF first = NoCall
           THEN /\ match_job' = [op |-> "match_or_suggest", pc |-> "similar",
                                 product |-> product]
                /\ UNCHANGED ret
           ELSE /\ match_job' = NoJob
                /\ ret' = first @@ [product |-> product]
    /\ UNCHANGED <<signal_job, price_job, alertVars, normVars, signals, storeVars>>

\* The running match_or_suggest runs suggest_new_sku, with its query for
\* similar entries, and returns the suggestion.
MatchSuggested ==
    /\ match_job # NoJob
    /\ match_job.op = "match_or_suggest"
    /\ ret' = match_or_suggest_suggested(outage, skus, match_job.product) @@
              [product |-> match_job.product]
    /\ match_job' = NoJob
    /\ UNCHANGED <<signal_job, price_job, alertVars, normVars, signals, storeVars>>

\* What a transaction of batch_match leaves: the batch returns once every
\* product has its result.
BatchMatched(job) ==
    IF Len(job.results) = Len(job.product_list)
    THEN /\ match_job' = NoJob
         /\ ret' = Returned("batch_match", job.results) @@
                   [product_list |-> job.product_list]
    ELSE /\ match_job' = job
         /\ UNCHANGED ret

\* SKUMatcher.batch_match(products) is called and runs the exact-match
\* query of its first product; the empty list is returned at once.
BatchMatch(product_list) ==
    /\ match_job = NoJob
    /\ Callable("batch_match", [product_list |-> product_list])
    /\ BatchMatched(IF product_list = <<>> THEN batch_match_called(product_list)
                    ELSE batch_match_step(outage, skus, batch_match_called(product_list)))
    /\ UNCHANGED <<signal_job, price_job, alertVars, normVars, signals, storeVars>>

\* The running batch_match runs its next query.
BatchMatchNext ==
    /\ match_job # NoJob
    /\ match_job.op = "batch_match"
    /\ BatchMatched(batch_match_step(outage, skus, match_job))
    /\ UNCHANGED <<signal_job, price_job, alertVars, normVars, signals, storeVars>>

\* upsert_product(product): the statement in a transaction of its own; a
\* failure is raised as LoaderError.
UpsertProduct(product) ==
    /\ products' = IF "upsert_product" \in outage THEN products
                    ELSE upsert_product(products, product)
    /\ ret' = (IF "upsert_product" \in outage
               THEN Raised("upsert_product", "LoaderError")
               ELSE Returned("upsert_product", upserted_id(products, product))) @@
              [product |-> product]
    /\ UNCHANGED <<jobVars, alertVars, normVars, signals, now, price_logs, market_signals, threshold,
                   skus, outage>>

\* A catalog entry is created for a product the matcher found no match
\* for: a row of the skus table, keyed by its five fields and never changed
\* afterwards.
create_sku(catalog, product) ==
    catalog \cup {[id |-> NextId(catalog), brand |-> product.brand,
                   chipset |-> product.chipset, model_name |-> product.model_name,
                   vram |-> product.vram, is_oc |-> product.is_oc]}

CreateSku(product) ==
    /\ ExactMatches(skus, product) = {}
    /\ skus' = create_sku(skus, product)
    /\ ret' = NoCall
    /\ UNCHANGED <<jobVars, alertVars, normVars, signals, now, price_logs, market_signals, threshold,
                   products, outage>>

\* The loop of ETLPipeline.transform_products moves on to the next listing.
NextListing ==
    /\ raw_text # <<>>
    /\ raw_text' = <<>>
    /\ used' = <<>>
    /\ norm_result' = NoCall
    /\ ret' = NoCall
    /\ UNCHANGED <<jobVars, alertVars, signals, storeVars>>

MaxProducts == 3
MaxUpserted == 1
SimilarLimits == {1, 5}

\* The listings of the catalog runs name the brand, the chipset, the VRAM
\* and then, some of them, a series word.
ListingFragments ==
    {f \in 1..Len(Fragments) :
        Fragments[f].text \in {<<"A", "S", "U", "S", " ">>, <<"[", "m", "s", "i", "]", " ">>, <<"R", "T", "X", " ", "4", "0", "7", "0", " ", "T", "i", " ">>,
                               <<"R", "T", "X", " ", "4", "0", "7", "0", " ">>, <<"1", "2", "G", "B", " ">>,
                               <<"G", "a", "m", "i", "n", "g", " ">>}}
ListingKinds == <<"brand", "chipset", "vram", "extra">>

\* The product of the repository's matcher tests.
SampleProduct ==
    [brand |-> <<"A", "S", "U", "S">>, chipset |-> <<"R", "T", "X", " ", "4", "0", "7", "0", " ", "S", "u", "p", "e", "r">>,
     model_name |-> <<"T", "U", "F", " ", "G", "a", "m", "i", "n", "g", " ", "O", "C">>, vram |-> <<"1", "2", "G", "B">>, is_oc |-> TRUE]

CatalogOutages == {{"find_matching_sku"}, {"find_similar_skus"},
                   {"find_matching_sku", "find_similar_skus"}}

\* The storage fails on the statement of the product loader.
LoaderOutages == {{"upsert_product"}}

\* The product the pipeline holds once normalize has succeeded.
Normalized ==
    IF norm_result # NoCall /\ norm_result.status = "ok"
    THEN {NormalizedProduct(norm_result)} ELSE {}

CatalogInit == IdleNormalizer /\ IdleAnalytics

\* The listing at hand is matched by one call at a time; entries are
\* created, and the storage fails and recovers, while a call runs.
CatalogNext ==
    \/ \E f \in ListingFragments :
           /\ match_job = NoJob
           /\ Len(used) < Len(ListingKinds)
           /\ Fragments[f].kind = ListingKinds[Len(used) + 1]
           /\ AppendFragment(f)
    \/ match_job = NoJob /\ norm_result = NoCall /\ Normalize
    \/ match_job = NoJob /\ outage = {} /\ NextListing
    \/ \E failing \in CatalogOutages \cup LoaderOutages :
           /\ Normalized # {}
           /\ failing \in LoaderOutages <=> skus = {} /\ products # {}
           /\ StorageFails(failing)
    \/ StorageRecovers
    \/ \E product \in Normalized : match_job = NoJob /\ FindMatchingSku(product)
    \/ \E product \in Normalized, limit \in SimilarLimits :
           match_job = NoJob /\ FindSimilarSkus(product, limit)
    \/ \E product \in Normalized : match_job = NoJob /\ SuggestNewSku(product)
    \/ \E product \in Normalized : MatchOrSuggest(product)
    \/ MatchSuggested
    \/ \E product \in Normalized :
           /\ outage = {} /\ products = {}
           /\ Cardinality(skus) < MaxProducts
           /\ CreateSku(product)
    \/ \E product \in Normalized :
           /\ match_job = NoJob
           /\ skus = {}
           /\ Cardinality(upsert_product(products, product)) <= MaxUpserted
           /\ UpsertProduct(product)

SpecCatalog == CatalogInit /\ [][CatalogNext]_vars

(***************************************************************************)
(* Suggestions and batches over a catalog of up to five entries, four of   *)
(* them similar to the product of the matcher tests.                       *)
(***************************************************************************)
CatalogProducts ==
    {SampleProduct,
     [brand |-> <<"A", "S", "U", "S">>, chipset |-> <<"R", "T", "X", " ", "4", "0", "7", "0", " ", "S", "u", "p", "e", "r">>,
      model_name |-> <<"D", "u", "a", "l">>, vram |-> <<"1", "2", "G", "B">>, is_oc |-> FALSE],
     [brand |-> <<"M", "S", "I">>, chipset |-> <<"R", "T", "X", " ", "4", "0", "7", "0", " ", "S", "u", "p", "e", "r">>,
      model_name |-> <<"V", "e", "n", "t", "u", "s", " ", "2", "X">>, vram |-> <<"1", "2", "G", "B">>, is_oc |-> FALSE],
     [brand |-> <<"A", "S", "U", "S">>, chipset |-> <<"R", "T", "X", " ", "4", "0", "7", "0", " ", "T", "i">>,
      model_name |-> <<"P", "r", "o", "A", "r", "t">>, vram |-> <<"1", "2", "G", "B">>, is_oc |-> FALSE],
     [brand |-> <<"M", "S", "I">>, chipset |-> <<"R", "T", "X", " ", "4", "0", "7", "0", " ", "T", "i">>,
      model_name |-> <<"G", "a", "m", "i", "n", "g", " ", "X">>, vram |-> <<"1", "2", "G", "B">>, is_oc |-> FALSE]}

\* The products a call is made with: one with three similar entries beside
\* itself, one with two.
AskedProducts ==
    {product \in CatalogProducts :
        product.model_name \in {SampleProduct.model_name, <<"G", "a", "m", "i", "n", "g", " ", "X">>}}

MaxBatchMatch == 2

ProductLists == UNION {[1..n -> AskedProducts] : n \in 0..MaxBatchMatch}

SuggestInit == IdleNormalizer /\ IdleAnalytics

SuggestNext ==
    \/ \E product \in CatalogProducts : outage = {} /\ CreateSku(product)
    \/ \E failing \in CatalogOutages : StorageFails(failing)
    \/ StorageRecovers
    \/ \E product \in AskedProducts : match_job = NoJob /\ FindMatchingSku(product)
    \/ \E product \in AskedProducts : match_job = NoJob /\ FindSimilarSkus(product, 3)
    \/ \E product \in AskedProducts : match_job = NoJob /\ SuggestNewSku(product)
    \/ \E product \in AskedProducts : MatchOrSuggest(product)
    \/ MatchSuggested
    \/ \E product_list \in ProductLists : BatchMatch(product_list)
    \/ BatchMatchNext

SpecSuggest == SuggestInit /\ [][SuggestNext]_vars

(***************************************************************************)
(* Every operation that queries the store, called while queries fail.      *)
(***************************************************************************)
HistoryDays == {1, 7}

\* No loader and no matcher is between two of its statements.
NoJobRuns == price_job = NoJob /\ match_job = NoJob

OutageNext ==
    \/ NoJobRuns /\ DateOf(now) < MaxOutageDay /\ outage = {} /\ NextDay
    \/ \E sku_id \in {<<>>} \cup {<<id>> : id \in CalledSkuIds}, source \in {Danawa}, price \in OfferedPrices \cup {TiePrice}, recorded_at \in {now - 1, now} :
           /\ outage \in LoadOutages
           /\ recorded_at >= 0
           /\ sku_id = <<>> => products = {} /\ price_logs = {}
           /\ price = TiePrice => Cardinality(price_logs) = 1 /\ outage = {}
           /\ LogsWithin(sku_id, PriceData(source, price, recorded_at), MaxOutageLogs)
           /\ match_job = NoJob /\ LoadPrices(<<PriceData(source, price, recorded_at)>>, SkuMapping(sku_id))
    \/ NoJobRuns /\ outage = {} /\ skus = {} /\ CreateSku(SampleProduct)
    \/ \E failing \in Outages :
           /\ NoJobRuns
           /\ StorageFails(failing)
    \/ NoJobRuns /\ StorageRecovers
    \/ \E sku_id \in CalledSkuIds, price \in CalledPrices :
           /\ NoJobRuns
           /\ CalculatePriceChange(sku_id, price)
    \/ \E sku_id \in CalledSkuIds, days \in HistoryDays :
           /\ NoJobRuns
           /\ GetPriceHistory(sku_id, days)
    \/ \E sku_id \in CalledSkuIds, required_days \in HistoryDays :
           /\ NoJobRuns
           /\ HasSufficientData(sku_id, required_days)
    \/ \E sku_id \in CalledSkuIds, price \in CalledPrices, m \in CalledMentions :
           /\ NoJobRuns
           /\ CalculateRiskIndex(sku_id, price, m)
    \/ \E sku_id \in CalledSkuIds, price \in CalledPrices, data \in CalledSentimentData :
           /\ NoJobRuns
           /\ CalculateRiskWithSentiment(sku_id, price, data)
    \/ \E days \in WindowDays :
           /\ NoJobRuns
           /\ CalculateRiskForAllSkus(days)
    \/ \E days \in WindowDays :
           /\ NoJobRuns
           /\ GetNewReleaseMentions(days)
    \/ \E sku_id \in CalledSkuIds, price \in CalledPrices, m \in CalledMentions :
           /\ NoJobRuns
           /\ GetContributingFactors(sku_id, price, m)
    \/ NoJobRuns /\ FindMatchingSku(SampleProduct)
    \/ \E limit \in SimilarLimits :
           /\ NoJobRuns
           /\ FindSimilarSkus(SampleProduct, limit)
    \/ NoJobRuns /\ SuggestNewSku(SampleProduct)
    \/ NoJobRuns /\ MatchOrSuggest(SampleProduct)
    \/ NoJobRuns /\ BatchMatch(<<SampleProduct>>)
    \/ MatchSuggested
    \/ BatchMatchNext
    \/ LoadNextPrice

SpecOutage == OutageInit /\ [][OutageNext]_vars

(***************************************************************************)
(* The core called by one stage of the pipeline at a time: the normalizer  *)
(* on a listing, the sentiment analyzer on collected signals, the matcher  *)
(* and the analytics over a store that the loaders fill.                   *)
(***************************************************************************)
MaxCoreDay == 9
MaxCoreLogs == 2
MaxCoreSignals == 2
CorePrice == 950000
\* The prices the two sources offer: one of them not a price, and the two
\* sources differing.
CoreOffers == {<<Danawa, 0>>, <<Danawa, 1000000>>, <<Enuri, 900000>>}
CoreKeywordCounts == {NewRelease :> 2 @@ PriceDrop :> 3, Issues :> 5}

\* Nothing was loaded and no signal collected.
StoreUntouched ==
    /\ now = 0 /\ price_logs = {} /\ market_signals = {} /\ products = {}
    /\ skus = {} /\ signals = <<>>

CoreInit == IdleNormalizer /\ IdleAnalytics

CoreNext ==
    \/ \E f \in ListingFragments :
           /\ NoJobRuns
           /\ StoreUntouched
           /\ Len(used) < Len(ListingKinds)
           /\ Fragments[f].kind = ListingKinds[Len(used) + 1]
           /\ AppendFragment(f)
    \/ NoJobRuns /\ Normalize
    \/ \E signal \in CollectedSignals :
           /\ NoJobRuns
           /\ raw_text = <<>> /\ price_logs = {} /\ market_signals = {} /\ skus = {}
           /\ Len(signals) < MaxCoreSignals
           /\ CollectSignal(signal)
    \/ NoJobRuns /\ AnalyzeKeywordFrequency
    \/ \E keyword_counts \in CoreKeywordCounts :
           /\ NoJobRuns
           /\ CalculateSentimentScore(keyword_counts)
    \/ NoJobRuns /\ raw_text = <<>> /\ signals = <<>> /\ DateOf(now) < MaxCoreDay /\ NextDay
    \/ \E sku_id \in CalledSkuIds, offer \in CoreOffers :
           /\ raw_text = <<>> /\ signals = <<>>
           /\ LogsWithin(<<sku_id>>, PriceData(offer[1], offer[2], now), MaxCoreLogs)
           /\ match_job = NoJob /\ LoadPrices(<<PriceData(offer[1], offer[2], now)>>, SkuMapping(<<sku_id>>))
    \/ \E signal \in BatchSignalsAt(now) :
           /\ NoJobRuns
           /\ raw_text = <<>> /\ signals = <<>> /\ market_signals = {}
           /\ LoadMarketSignals(<<signal>>)
    \/ NoJobRuns /\ raw_text = <<>> /\ signals = <<>> /\ skus = {} /\ CreateSku(SampleProduct)
    \/ NoJobRuns /\ FindMatchingSku(SampleProduct)
    \/ \E limit \in SimilarLimits :
           /\ NoJobRuns
           /\ FindSimilarSkus(SampleProduct, limit)
    \/ NoJobRuns /\ MatchOrSuggest(SampleProduct)
    \/ NoJobRuns /\ BatchMatch(<<SampleProduct>>)
    \/ MatchSuggested
    \/ BatchMatchNext
    \/ \E sku_id \in CalledSkuIds :
           /\ NoJobRuns
           /\ CalculatePriceChange(sku_id, CorePrice)
    \/ \E sku_id \in CalledSkuIds, days \in HistoryDays :
           /\ NoJobRuns
           /\ GetPriceHistory(sku_id, days)
    \/ \E sku_id \in CalledSkuIds, required_days \in HistoryDays :
           /\ NoJobRuns
           /\ HasSufficientData(sku_id, required_days)
    \/ \E sku_id \in CalledSkuIds, m \in Mentions :
           /\ NoJobRuns
           /\ CalculateRiskIndex(sku_id, CorePrice, m)
    \/ \E sku_id \in CalledSkuIds, data \in CalledSentimentData :
           /\ NoJobRuns
           /\ CalculateRiskWithSentiment(sku_id, CorePrice, data)
    \/ \E days \in WindowDays :
           /\ NoJobRuns
           /\ CalculateRiskForAllSkus(days)
    \/ \E sku_id \in CalledSkuIds, m \in Mentions :
           /\ NoJobRuns
           /\ GetContributingFactors(sku_id, CorePrice, m)
    \/ LoadNextPrice

SpecCore == CoreInit /\ [][CoreNext]_vars

(***************************************************************************)
(* What the operations do with invalid input, missing data and a failing   *)
(* storage collaborator.                                                   *)
(***************************************************************************)
RejectedAsInvalid == ret.status = "error" /\ ret.error = "ValueError"

\* C11: every operation that takes a current price (calculate_price_change,
\* calculate_risk_index, calculate_risk_with_sentiment,
\* get_contributing_factors) fails with a validation error when the price is
\* zero or negative, every operation that takes a mention count fails when
\* the count is negative, and every operation that uses the baseline fails
\* when the baseline is exactly zero; the rejection comes before any storage
\* query is issued, so it is the outcome whether or not the storage answers,
\* and no result computed from such input is returned.
C11_InvalidInputRejected ==
    /\ \A op \in {"calculate_price_change", "calculate_risk_index",
                  "calculate_risk_with_sentiment", "get_contributing_factors"} :
           /\ Called(op) /\ ret.current_price <= 0 => RejectedAsInvalid
           /\ Called(op) /\ outage = {} /\ BaselineWindow(ret.sku_id) # {}
                  /\ SumPrice(BaselineWindow(ret.sku_id)) = 0 => RejectedAsInvalid
    /\ \A op \in {"calculate_risk_index", "get_contributing_factors"} :
           Called(op) /\ ret.new_release_mentions < 0 => RejectedAsInvalid
    /\ Called("calculate_risk_with_sentiment")
           /\ SumReleaseCounts(ret.sentiment_data) < 0 => RejectedAsInvalid

\* ---------------------------------------------------------------------------
\* Storage failures.

\* The queries the last call issues with the input it was given: a method
\* that validates its input issues none for an invalid one, and the batch
\* reads a baseline only for an entry observed in the last 24 hours.
IssuedQueries ==
    CASE ret.op \in {"find_matching_sku", "match_or_suggest"} -> {"find_matching_sku"}
      [] ret.op = "find_similar_skus" -> {"find_similar_skus"}
      [] ret.op = "calculate_price_change" ->
             IF ret.current_price > 0 THEN {"_get_historical_prices"} ELSE {}
      [] ret.op = "get_price_history" -> {"get_price_history"}
      [] ret.op = "has_sufficient_data" -> {"has_sufficient_data"}
      [] ret.op = "calculate_risk_index" ->
             IF ret.current_price > 0 /\ ret.new_release_mentions >= 0
             THEN {"_get_historical_prices"} ELSE {}
      [] ret.op = "get_contributing_factors" -> {"_get_historical_prices"}
      [] OTHER -> {}

\* The failure came back to the caller as an error: SKUMatchError from the
\* matcher, the storage error from the analytics.
ReportedAsError ==
    /\ ret.status = "error"
    /\ ret.error = IF ret.op \in {"find_matching_sku", "find_similar_skus",
                                  "match_or_suggest"}
                   THEN "SKUMatchError" ELSE "DatabaseError"

\* The queries whose failure the issuing method keeps to itself.
KeptQueries ==
    CASE ret.op \in {"has_sufficient_data", "get_contributing_factors"} -> Queries
      [] OTHER -> {}

LoopAsWritten ==
    \A results \in risk_for_latest_prices(outage, price_logs, now, threshold, 0) :
        /\ "calculate_risk_for_all_skus" \in outage
               => results = Raised("calculate_risk_for_all_skus", "DatabaseError")
        /\ outage = {"_get_historical_prices"}
               => results.status = "ok" /\ DOMAIN results.value = {}

\* What the calls give: a failing query is reported to the caller as an
\* error (SKUMatchError for catalog queries, the storage error otherwise) by
\* find_matching_sku, find_similar_skus, match_or_suggest,
\* calculate_price_change, get_price_history and calculate_risk_index, no
\* call of which returns a result; the failure is kept from the caller by
\* has_sufficient_data, which returns False, by get_contributing_factors,
\* which returns a map with an error field, by the similar-entries lookup
\* inside suggest_new_sku and by batch_match, which records an error entry
\* for the item; calculate_risk_for_all_skus neither reports nor keeps a
\* storage failure: every call ends in the IndexError of its mention
\* statement, the storage failing or not.
CallsReportOrKeep ==
    ret # NoCall =>
        /\ (IssuedQueries \ KeptQueries) \cap outage # {} => ReportedAsError
        /\ Called("has_sufficient_data") /\ "has_sufficient_data" \in outage
               => ret.status = "ok" /\ ret.value = FALSE
        /\ Called("calculate_risk_for_all_skus")
               => ret.status = "error" /\ ret.error = "IndexError"
        /\ Called("get_contributing_factors") /\ "_get_historical_prices" \in outage
               => /\ ret.status = "ok"
                  /\ DOMAIN ret.value = {"error", "current_price", "new_release_mentions"}
                  /\ ret.value.error = "DatabaseError"
        /\ Called("suggest_new_sku") /\ "find_similar_skus" \in outage
               => /\ ret.status = "ok"
                  /\ ret.value.action = "create_new_sku"
                  /\ "similar_existing_skus" \notin DOMAIN ret.value
        /\ Called("batch_match") /\ "find_matching_sku" \in outage
               => /\ ret.status = "ok"
                  /\ \A i \in 1..Len(ret.product_list) :
                         /\ ret.value[i].action = "error"
                         /\ ret.value[i].error = "SKUMatchError"

C12_WitnessBatch ==
    /\ Called("calculate_risk_for_all_skus")
    /\ outage = {"_get_historical_prices"}
    /\ ret.status = "error" /\ ret.error = "IndexError"
    /\ \E sku_id \in SkuIds : HasRecentObservation(sku_id) /\ BaselineWindow(sku_id) # {}
    /\ \E results \in risk_for_latest_prices({}, price_logs, now, threshold, 0) :
           results.status = "ok" /\ DOMAIN results.value # {}
    /\ \A results \in risk_for_latest_prices(outage, price_logs, now, threshold, 0) :
           results.status = "ok" /\ DOMAIN results.value = {}

\* A failing history query comes back as the storage error.
C12_WitnessRaised ==
    /\ Called("get_price_history")
    /\ "get_price_history" \in outage
    /\ ret.status = "error"
    /\ price_logs # {}

\* C13: get_contributing_factors never raises on missing data.  Over an
\* empty baseline window it returns a map with an error field next to the
\* unchanged current_price and new_release_mentions; over a non-empty window
\* with a non-zero baseline it returns current_price, last_week_avg_price,
\* price_delta, price_change_pct, new_release_mentions, sentiment_impact
\* (0.3 for each mention) and the threshold in use, all from the baseline
\* that calculate_price_change and calculate_risk_index use.
C13_FactorsNeverRaise ==
    Called("get_contributing_factors") /\ outage = {} =>
        LET window == BaselineWindow(ret.sku_id)
            total == SumPrice(window)
            n == Cardinality(window)
            factors == ret.value
            change == calculate_price_change(price_logs, now, ret.sku_id,
                                             ret.current_price)
            index == calculate_risk_index(price_logs, now, ret.sku_id,
                                          ret.current_price, ret.new_release_mentions)
        IN  /\ ret.status = "ok"
            /\ factors.current_price = ret.current_price
            /\ factors.new_release_mentions = ret.new_release_mentions
            /\ window = {} =>
                   DOMAIN factors = {"error", "current_price", "new_release_mentions"}
            /\ window # {} /\ total # 0 =>
                   /\ DOMAIN factors =
                          {"current_price", "last_week_avg_price", "price_delta",
                           "price_change_pct", "new_release_mentions",
                           "sentiment_impact", "threshold"}
                   /\ IsNearest(factors.last_week_avg_price, 100 * total, n)
                   /\ IsNearest(factors.price_delta,
                                100 * (ret.current_price * n - total), n)
                   /\ IsNearestPercent(factors.price_change_pct,
                                       ret.current_price * n - total, total)
                   /\ factors.sentiment_impact = 30 * ret.new_release_mentions
                   /\ factors.threshold = threshold
                   /\ change.status = "ok" => factors.price_change_pct = change.value
                   /\ index.status = "ok" =>
                          factors.price_delta + factors.sentiment_impact = index.value

\* The breakdown of the repository's test: 950,000 against a baseline of
\* 1,000,000 with 10 mentions.
C13_Witness ==
    /\ Called("get_contributing_factors")
    /\ ret.status = "ok"
    /\ BaselineWindow(ret.sku_id) # {}
    /\ ret.value = [current_price |-> 950000, last_week_avg_price |-> 100000000,
                    price_delta |-> -5000000, price_change_pct |-> -500,
                    new_release_mentions |-> 10, sentiment_impact |-> 300,
                    threshold |-> threshold]

\* The missing-data case: the error map over an empty window.
C13_WitnessEmpty ==
    /\ Called("get_contributing_factors")
    /\ price_logs # {}
    /\ BaselineWindow(ret.sku_id) = {}
    /\ ret.value = [error |-> "Insufficient historical data",
                    current_price |-> 950000, new_release_mentions |-> 10]
(***************************************************************************)
(* What the sentiment scorer is to return.                                 *)
(***************************************************************************)
\* The count of a keyword in a map of mention counts, 0 where it is absent.
CountOf(keyword_counts, keyword) ==
    IF keyword \in DOMAIN keyword_counts THEN keyword_counts[keyword] ELSE 0

HighWeightKeywords == {NewRelease, Leak, <<"5", "0", "7", "0", " ", "r", "e", "l", "e", "a", "s", "e", " ", "d", "a", "t", "e">>}

\* C15: calculate_sentiment_score returns the sum over the keywords of
\* count times weight, the weight being 3.0 for 'New Release', 'Leak' and
\* '5070 release date', 2.0 for 'Price Drop' and 1.0 for every other keyword,
\* a keyword unknown to the scorer included; {New Release: 5, Price Drop: 3,
\* Issues: 2} scores 23.0 and the empty map scores 0.
C15_WeightedScore ==
    Called("calculate_sentiment_score") =>
        LET counts == ret.keyword_counts
            others == DOMAIN counts \ (HighWeightKeywords \cup {PriceDrop})
        IN  /\ ret.status = "ok"
            /\ ret.value = 300 * (CountOf(counts, NewRelease) + CountOf(counts, Leak)
                                      + CountOf(counts, <<"5", "0", "7", "0", " ", "r", "e", "l", "e", "a", "s", "e", " ", "d", "a", "t", "e">>))
                               + 200 * CountOf(counts, PriceDrop)
                               + 100 * SumValues([k \in others |-> counts[k]])
            /\ counts = (NewRelease :> 5 @@ PriceDrop :> 3 @@ Issues :> 2)
                   => ret.value = 2300
            /\ DOMAIN counts = {} => ret.value = 0

\* The documented example, with its score of 23.0.
C15_Witness ==
    /\ Called("calculate_sentiment_score")
    /\ ret.keyword_counts = (NewRelease :> 5 @@ PriceDrop :> 3 @@ Issues :> 2)
    /\ ret.value = 2300

\* The score of a date in a list of signals: each keyword's weight times the
\* number of distinct posts that mention it on that date.
DateScore(sigs, d) ==
    300 * Cardinality(UrlsOf(sigs, NewRelease, d))
        + 200 * Cardinality(UrlsOf(sigs, PriceDrop, d))
        + 100 * Cardinality(UrlsOf(sigs, Issues, d))

\* C16: enrich_signals_with_sentiment returns the input mentions, as many
\* and in the same order, each carrying the aggregate weighted score of its
\* calendar date: the sum over the keywords of weight times deduplicated
\* count.
C16_EnrichKeepsSignalsAndScoresDates ==
    Called("enrich_signals_with_sentiment") =>
        /\ ret.status = "ok"
        /\ Len(ret.value) = Len(ret.signals)
        /\ signals = ret.value
        /\ \A i \in 1..Len(ret.signals) :
               /\ ret.value[i].keyword = ret.signals[i].keyword
               /\ ret.value[i].post_url = ret.signals[i].post_url
               /\ ret.value[i].timestamp = ret.signals[i].timestamp
               /\ ret.value[i].sentiment_score =
                      DateScore(ret.signals, DateOf(ret.signals[i].timestamp))

\* Two posts on one date, one of them collected twice for 'New Release' and
\* the other mentioning 'Price Drop': every signal carries 3.0 + 2.0.
C16_Witness ==
    /\ Called("enrich_signals_with_sentiment")
    /\ Len(ret.signals) = 3
    /\ ret.signals[1] = ret.signals[2]
    /\ ret.signals[1].keyword = NewRelease
    /\ ret.signals[3].keyword = PriceDrop
    /\ ret.signals[3].post_url # ret.signals[1].post_url
    /\ \A i \in 1..3 : DateOf(ret.signals[i].timestamp) = 0
    /\ \A i \in 1..3 : ret.value[i].sentiment_score = 500
(***************************************************************************)
(* Which keywords of sentiment_data the sentiment-aware risk index counts. *)
(***************************************************************************)
\* sentiment_data without keyword
Without(sentiment_data, keyword) ==
    [k \in DOMAIN sentiment_data \ {keyword} |-> sentiment_data[k]]

\* What the keyword adds to the index just returned, in hundredths: the
\* index less the index of the same call without the keyword.
Contribution(keyword) ==
    ret.value[1]
        - calculate_risk_with_sentiment(price_logs, now, threshold, ret.sku_id,
              ret.current_price, Without(ret.sentiment_data, keyword)).value[1]

Counted(keyword) == Contribution(keyword) = 30 * ret.sentiment_data[keyword]

HasReleaseTerm(keyword) ==
    \/ Contains(LowerStr(keyword), <<"n", "e", "w", " ", "r", "e", "l", "e", "a", "s", "e">>)
    \/ Contains(LowerStr(keyword), <<"l", "e", "a", "k">>)
    \/ Contains(LowerStr(keyword), <<"5", "0", "7", "0">>)

\* C14 as claimed: calculate_risk_with_sentiment adds a keyword's count to
\* the release-mention total exactly when calculate_sentiment_score weights
\* the keyword 3.0, and no other keyword changes the index.
C14_Original ==
    Called("calculate_risk_with_sentiment") /\ ret.status = "ok" =>
        \A keyword \in DOMAIN ret.sentiment_data :
            /\ Counted(keyword) <=> WeightOf(keyword) = sentiment_weight_new_release
            /\ ~Counted(keyword) => Contribution(keyword) = 0

\* C14: calculate_risk_with_sentiment adds a keyword's count to the
\* release-mention total exactly when the keyword, in lower case, contains
\* 'new release', 'leak' or '5070', and no other keyword changes the index.
\* Every keyword that calculate_sentiment_score weights 3.0 is counted, and
\* among the collector's configured keywords the counted ones are exactly
\* those weighted 3.0.
C14_CountsReleaseTerms ==
    Called("calculate_risk_with_sentiment") /\ ret.status = "ok" =>
        \A keyword \in DOMAIN ret.sentiment_data :
            /\ Counted(keyword) <=> HasReleaseTerm(keyword)
            /\ ~Counted(keyword) => Contribution(keyword) = 0
            /\ WeightOf(keyword) = sentiment_weight_new_release => Counted(keyword)
            /\ keyword \in KEYWORDS =>
                   (Counted(keyword) <=>
                        WeightOf(keyword) = sentiment_weight_new_release)

\* A keyword the scorer does not know, and so weights 1.0, is counted.
C14_Witness ==
    /\ Called("calculate_risk_with_sentiment")
    /\ ret.status = "ok"
    /\ \E keyword \in DOMAIN ret.sentiment_data :
           /\ keyword \notin KEYWORDS
           /\ WeightOf(keyword) = sentiment_weight_default
           /\ Counted(keyword)
    /\ \E keyword \in DOMAIN ret.sentiment_data :
           ~HasReleaseTerm(keyword) /\ Contribution(keyword) = 0
(***************************************************************************)
(* What the matcher is to return, said over the rows of the catalog.       *)
(***************************************************************************)
\* The row and the product agree on all five fields.
SameFiveFields(row, product) ==
    /\ row.brand = product.brand
    /\ row.chipset = product.chipset
    /\ row.model_name = product.model_name
    /\ row.vram = product.vram
    /\ row.is_oc = product.is_oc

\* The last call was made with the product of the listing just normalized.
CalledWithListing(op) ==
    /\ Called(op)
    /\ Normalized # {}
    /\ ret.product \in Normalized

\* C17: normalize is deterministic, and for every text it accepts and every
\* catalog that holds an entry whose five fields equal the normalized
\* product, find_matching_sku of the normalized product returns that
\* entry's id.
C17_RoundTrip ==
    CalledWithListing("find_matching_sku") /\ "find_matching_sku" \notin outage =>
        /\ norm_result = normalize(raw_text)
        /\ \A row \in skus :
               SameFiveFields(row, NormalizedProduct(norm_result))
                   => ret.status = "ok" /\ ret.value = <<row.id>>

\* The entry of an MSI listing is found among three entries, an older and a
\* newer one around it.
C17_Witness ==
    /\ CalledWithListing("find_matching_sku")
    /\ ret.status = "ok"
    /\ ret.value = <<2>>
    /\ ret.product.brand = <<"M", "S", "I">>
    /\ Cardinality(skus) = 3
    /\ \E row \in skus : row.id = 2 /\ SameFiveFields(row, ret.product)
\* C18: the identity of a catalog entry is its full five-field key and
\* entries are never mutated.  Whatever upsert_product loads, every entry
\* stays in the catalog with its id and its five fields, a product without
\* an exact match gets an entry of its own, so that two products differing
\* in any of the five fields occupy two distinct entries, and the exact
\* match of a product just created returns the id it was created with.
C18_FiveFieldIdentity ==
    [][/\ \A row \in products : row \in products'
       /\ \A product \in Normalized :
              products' # products /\ ExactMatches(products, product) = {}
                  => Cardinality(products') = Cardinality(products) + 1
       /\ (ret' # ret /\ ret' # NoCall /\ ret'.op = "upsert_product" /\ ret'.status = "ok")
              => find_matching_sku({}, skus', ret'.product).value = <<ret'.value>>]_vars
\* ---------------------------------------------------------------------------
\* The similar entries of a product.

\* What an entry shares with the product: 3 for brand and chipset, 2 for the
\* chipset alone, 1 for the brand alone, 0 for neither.
SharedScore(row, product) ==
    IF row.brand = product.brand /\ row.chipset = product.chipset THEN 3
    ELSE IF row.chipset = product.chipset THEN 2
    ELSE IF row.brand = product.brand THEN 1
    ELSE 0

\* Entry a stands before entry b in the ranking: higher score, or the same
\* score and created later.
Outranks(a_score, a_id, b_score, b_id) ==
    a_score > b_score \/ (a_score = b_score /\ a_id > b_id)

\* C19: find_similar_skus(product, limit) returns at most limit entries of the
\* catalog, each scored 3, 2 or 1 by what it shares with the product, in the
\* order of the score and then of creation, most recent first; an entry that
\* shares brand or chipset and is left out is outranked by every returned
\* entry, the result then being full; an entry that shares neither is never
\* returned.
C19_SimilarRanking ==
    CalledWithListing("find_similar_skus") /\ "find_similar_skus" \notin outage =>
        LET similar == ret.value
            product == ret.product
            Returned_ids == {similar[i].sku_id : i \in 1..Len(similar)}
        IN  /\ ret.status = "ok"
            /\ Len(similar) <= ret.limit
            /\ \A i \in 1..Len(similar) :
                   \E row \in skus :
                       /\ row.id = similar[i].sku_id
                       /\ SameFiveFields(row, similar[i])
                       /\ similar[i].similarity_score = SharedScore(row, product)
                       /\ SharedScore(row, product) \in {1, 2, 3}
            /\ \A i, j \in 1..Len(similar) :
                   i < j => Outranks(similar[i].similarity_score, similar[i].sku_id,
                                     similar[j].similarity_score, similar[j].sku_id)
            /\ \A row \in skus :
                   SharedScore(row, product) >= 1 /\ row.id \notin Returned_ids
                       => /\ Len(similar) = ret.limit
                          /\ \A i \in 1..Len(similar) :
                                 Outranks(similar[i].similarity_score, similar[i].sku_id,
                                          SharedScore(row, product), row.id)

\* A catalog of three entries, one sharing nothing with the product and two
\* sharing something, asked for one similar entry: the better one is returned
\* and the other left out.
C19_Witness ==
    /\ CalledWithListing("find_similar_skus")
    /\ outage = {}
    /\ ret.limit = 1
    /\ Len(ret.value) = 1
    /\ \E row \in skus : SharedScore(row, ret.product) = 0
    /\ \E row \in skus :
           /\ SharedScore(row, ret.product) >= 1
           /\ row.id # ret.value[1].sku_id

\* Three entries returned in one answer with two different scores.
C19_WitnessOrder ==
    /\ CalledWithListing("find_similar_skus")
    /\ ret.status = "ok"
    /\ Len(ret.value) = 3
    /\ ret.value[1].similarity_score > ret.value[3].similarity_score

\* ---------------------------------------------------------------------------
\* Match or suggest.

\* The running call of match_or_suggest.
MatchRuns == match_job # NoJob /\ match_job.op = "match_or_suggest"

\* A step in which match_or_suggest is called and returns from its
\* exact-match query.
MatchAnswered ==
    /\ match_job = NoJob /\ match_job' = NoJob
    /\ ret' # ret /\ ret' # NoCall /\ ret'.op = "match_or_suggest"

\* A step in which match_or_suggest is called and goes on to the
\* suggestion.
MatchGoesOn == match_job = NoJob /\ match_job' # NoJob /\ match_job'.op = "match_or_suggest"

\* A step in which the running match_or_suggest returns.
MatchReturns == MatchRuns /\ match_job' = NoJob

\* C20: match_or_suggest(product) answers use_existing with id i exactly when
\* the catalog it queries holds an entry with id i equal to the product on
\* all five fields, and otherwise create_new_sku with the product's own
\* five fields; finding no match is a normal result, whether or not the
\* similar entries can be read; a failure of the exact-match query is raised
\* as SKUMatchError.  The catalog and the failure are those of the
\* exact-match query, the first of the two transactions of the call.
C20_MatchOrSuggest ==
    [][/\ MatchAnswered =>
              IF "find_matching_sku" \in outage
              THEN ret'.status = "error" /\ ret'.error = "SKUMatchError"
              ELSE /\ ret'.status = "ok"
                   /\ ret'.value.action = "use_existing"
                   /\ ret'.value.product_data = ret'.product
                   /\ \E row \in skus :
                          row.id = ret'.value.sku_id /\ SameFiveFields(row, ret'.product)
                   /\ \A row \in skus :
                          SameFiveFields(row, ret'.product) => row.id = ret'.value.sku_id
       /\ MatchGoesOn =>
              /\ "find_matching_sku" \notin outage
              /\ \A row \in skus : ~SameFiveFields(row, match_job'.product)
       /\ MatchReturns =>
              /\ ret'.status = "ok"
              /\ ret'.value.action = "create_new_sku"
              /\ ret'.product = match_job.product
              /\ ret'.value.product_data = match_job.product
              /\ SameFiveFields(ret'.value.suggested_fields, match_job.product)]_vars

\* A product without a match in a catalog that holds other entries, while the
\* query for similar entries fails: a suggestion all the same.
C20_Witness ==
    /\ CalledWithListing("match_or_suggest")
    /\ outage = {"find_similar_skus"}
    /\ skus # {}
    /\ ret.status = "ok"
    /\ ret.value.action = "create_new_sku"
    /\ ExactMatches(skus, ret.product) = {}

\* A product whose entry stands among two others of its brand.
C20_WitnessExisting ==
    /\ CalledWithListing("match_or_suggest")
    /\ Cardinality(skus) = 3
    /\ ret.status = "ok"
    /\ ret.value.action = "use_existing"

\* The entry of the product was created between the two queries of the
\* call: the suggestion to create it stands beside it.
C20_WitnessCreatedMeanwhile ==
    /\ CalledWithListing("match_or_suggest")
    /\ ret.status = "ok"
    /\ ret.value.action = "create_new_sku"
    /\ ExactMatches(skus, ret.product) # {}
\* ---------------------------------------------------------------------------
\* Suggestions and batches.

\* The catalog rows that share the brand or the chipset of the product.
SimilarRows(product) ==
    {row \in skus : SharedScore(row, product) >= 1}

\* C21: suggest_new_sku always returns a creation proposal with the
\* product's five fields, also when the lookup of similar entries fails; the
\* list of similar entries (at most 3 of them) and the note are present
\* exactly when the lookup succeeded and found at least one entry.
C21_SuggestionAlwaysReturned ==
    Called("suggest_new_sku") =>
        LET found == "find_similar_skus" \notin outage /\ SimilarRows(ret.product) # {}
        IN  /\ ret.status = "ok"
            /\ ret.value.action = "create_new_sku"
            /\ SameFiveFields(ret.value.suggested_fields, ret.product)
            /\ ret.value.product_data = ret.product
            /\ "similar_existing_skus" \in DOMAIN ret.value <=> found
            /\ "note" \in DOMAIN ret.value <=> found
            /\ found =>
                   /\ Len(ret.value.similar_existing_skus) <= 3
                   /\ Len(ret.value.similar_existing_skus) >= 1
                   /\ \A i \in 1..Len(ret.value.similar_existing_skus) :
                          \E row \in SimilarRows(ret.product) :
                              row.id = ret.value.similar_existing_skus[i].sku_id
                   /\ ret.value.note.found = Len(ret.value.similar_existing_skus)

\* Four entries of the catalog are similar to the product and three of them
\* come with the suggestion.
C21_Witness ==
    /\ Called("suggest_new_sku")
    /\ outage = {}
    /\ Cardinality(SimilarRows(ret.product)) = 4
    /\ Len(ret.value.similar_existing_skus) = 3

\* The lookup fails over a catalog that holds similar entries: the proposal
\* comes without them.
C21_WitnessLookupFails ==
    /\ Called("suggest_new_sku")
    /\ "find_similar_skus" \in outage
    /\ SimilarRows(ret.product) # {}
    /\ ret.status = "ok"
    /\ DOMAIN ret.value = {"action", "reason", "product_data", "suggested_fields"}

\* The running call of batch_match.
BatchRuns == match_job # NoJob /\ match_job.op = "batch_match"

\* A step in which batch_match is called, runs a query or returns.
BatchStepped ==
    \/ BatchRuns /\ match_job' # match_job
    \/ /\ match_job = NoJob
       /\ match_job' # NoJob /\ match_job'.op = "batch_match"
    \/ /\ match_job = NoJob /\ match_job' = NoJob
       /\ ret' # ret /\ ret' # NoCall /\ ret'.op = "batch_match"

\* The results before the step, the query it runs, and the list and the
\* results after it.
ResultsBefore == IF BatchRuns THEN match_job.results ELSE <<>>
QueryRun == IF BatchRuns THEN match_job.pc ELSE "exact"
ListAfter == IF match_job' # NoJob THEN match_job'.product_list ELSE ret'.product_list
ResultsAfter == IF match_job' # NoJob THEN match_job'.results ELSE ret'.value

\* The step appends the entry of the product at hand, and with it the batch
\* returns or turns to the next product.
Appended(entry) ==
    /\ ResultsAfter = Append(ResultsBefore, entry)
    /\ IF Len(ResultsAfter) = Len(ListAfter)
       THEN match_job' = NoJob /\ ret'.status = "ok"
       ELSE match_job' # NoJob /\ match_job'.pc = "exact"

\* C22: batch_match returns one result for each product of the list, in the
\* order of the list (the empty list for the empty list) and never an error
\* of its own; every query of the batch settles the product at hand only,
\* the results of the products before it staying as they are and the batch
\* going on to the products after it: a product whose exact-match query
\* fails gets an error entry, a product the catalog holds an equal entry
\* for gets use_existing with the id of the entry, and any other product
\* gets create_new_sku with its own five fields, with the similar entries
\* when they can be read and there are some.
C22_BatchContinues ==
    /\ [](/\ Called("batch_match") =>
                 /\ ret.status = "ok"
                 /\ Len(ret.value) = Len(ret.product_list)
                 /\ \A i \in 1..Len(ret.product_list) :
                        ret.value[i].product_data = ret.product_list[i]
          /\ BatchRuns =>
                 /\ Len(match_job.results) < Len(match_job.product_list)
                 /\ \A i \in 1..Len(match_job.results) :
                        match_job.results[i].product_data = match_job.product_list[i])
    /\ [][BatchStepped =>
              /\ BatchRuns => ListAfter = match_job.product_list
              /\ IF ListAfter = <<>>
                 THEN match_job' = NoJob /\ ret'.status = "ok" /\ ret'.value = <<>>
                 ELSE LET product == ListAfter[Len(ResultsBefore) + 1]
                          matches == {row \in skus : SameFiveFields(row, product)}
                      IN  IF QueryRun = "exact"
                          THEN IF "find_matching_sku" \in outage
                               THEN Appended([action |-> "error", error |-> "SKUMatchError",
                                              product_data |-> product])
                               ELSE IF matches # {}
                               THEN \E row \in matches :
                                        Appended([action |-> "use_existing",
                                                  sku_id |-> row.id,
                                                  product_data |-> product])
                               ELSE /\ ResultsAfter = ResultsBefore
                                    /\ match_job' # NoJob /\ match_job'.pc = "similar"
                          ELSE /\ Len(ResultsAfter) = Len(ResultsBefore) + 1
                               /\ Appended(ResultsAfter[Len(ResultsAfter)])
                               /\ LET entry == ResultsAfter[Len(ResultsAfter)]
                                  IN  /\ entry.action = "create_new_sku"
                                      /\ entry.product_data = product
                                      /\ SameFiveFields(entry.suggested_fields, product)
                                      /\ "similar_existing_skus" \in DOMAIN entry
                                             <=> /\ "find_similar_skus" \notin outage
                                                 /\ SimilarRows(product) # {}]_vars

\* The query fails for the first of two products and the storage recovers;
\* the second, which is in the catalog, is matched all the same.
C22_Witness ==
    /\ Called("batch_match")
    /\ Len(ret.product_list) = 2
    /\ ret.value[1].action = "error"
    /\ ret.value[2].action = "use_existing"

\* The empty batch.
C22_WitnessEmpty ==
    /\ Called("batch_match")
    /\ ret.product_list = <<>>
    /\ ret.value = <<>>

\* The second product of a batch has its result while the first has a
\* suggestion made for an entry that was created since.
C22_WitnessCreatedMeanwhile ==
    /\ Called("batch_match")
    /\ Len(ret.product_list) = 2
    /\ ret.value[1].action = "create_new_sku"
    /\ ExactMatches(skus, ret.product_list[1]) # {}
\* ---------------------------------------------------------------------------
\* The errors of the normalizer.

\* The error raised for a text that names a brand and a VRAM size and
\* mentions no chipset.
NoChipsetError == normalize(<<"A", "S", "U", "S", " ", "G", "a", "m", "i", "n", "g", " ", "1", "2", "G", "B">>)

\* C23 as stated: every NormalizationError includes the offending raw text,
\* and an out-of-scope chipset is rejected with an error distinct from the
\* one raised for a text that mentions no chipset.
C23_Original ==
    norm_result # NoCall /\ norm_result.status = "error" =>
        /\ norm_result.arg = raw_text
        /\ OnlyOutOfScopeChipset /\ HasBrand(raw_text)
               => norm_result.msg # NoChipsetError.msg

\* The text has a brand and the chipset phrase found in it is refused for
\* a dotted capital I or a dotless small i.
RefusedAsFolded(s) == HasBrand(s) /\ FoldedChipsetFound(s)

\* The messages of the errors that quote the text.
QuotingMessages == {"Failed to extract brand from: {name}", "Failed to extract chipset from: {name}", "Failed to extract VRAM from: {name}"}

\* C23: every NormalizationError raised for a text that is not blank names
\* the first field, of brand, chipset and VRAM in this order, that the text
\* lacks, and quotes the text, unless the chipset phrase found is written
\* with a dotted capital I or a dotless small i: the error of such a text
\* names the chipset and quotes the phrase as it was canonicalized, not the
\* text; the error for a blank text quotes nothing; blank input, no brand,
\* no chipset, a chipset so written and no VRAM have five different
\* messages, and a text whose only chipset is outside the series is refused
\* with the message of a text that mentions no chipset.
C23_ErrorsNameTheField ==
    norm_result # NoCall /\ norm_result.status = "error" =>
        /\ norm_result.error = "NormalizationError"
        /\ IsBlank(raw_text) =>
               /\ norm_result.msg = "Product name cannot be empty"
               /\ norm_result.arg = <<>>
        /\ RefusedAsFolded(raw_text) =>
               /\ norm_result.msg = "Chipset {chipset_normalized} not in RTX 4070 series"
               /\ norm_result.msg \notin QuotingMessages
               /\ norm_result.arg # raw_text
               /\ norm_result.arg \notin VariantSet
        /\ ~IsBlank(raw_text) /\ ~RefusedAsFolded(raw_text) =>
               /\ norm_result.arg = raw_text
               /\ norm_result.msg =
                      IF ~HasBrand(raw_text)
                      THEN "Failed to extract brand from: {name}"
                      ELSE IF ~HasChipset(raw_text)
                      THEN "Failed to extract chipset from: {name}"
                      ELSE "Failed to extract VRAM from: {name}"
               /\ ~HasVram(raw_text) /\ HasBrand(raw_text) /\ HasChipset(raw_text)
                      => norm_result.msg # NoChipsetError.msg
        /\ OnlyOutOfScopeChipset /\ HasBrand(raw_text)
               => norm_result.msg = NoChipsetError.msg

\* A listing of an RTX 4080 without a VRAM size was refused for its chipset.
C23_Witness ==
    /\ norm_result # NoCall
    /\ OnlyOutOfScopeChipset
    /\ HasBrand(raw_text)
    /\ ~HasVram(raw_text)
    /\ norm_result.status = "error"
    /\ norm_result.msg = NoChipsetError.msg
    /\ norm_result.arg = raw_text

\* A listing of ASUS, RTX 4070 and a word Ti written with a dotless small
\* i was refused with the canonicalized phrase in the message.
C23_WitnessFolded ==
    /\ norm_result # NoCall
    /\ norm_result.status = "error"
    /\ RefusedAsFolded(raw_text)
    /\ HasVram(raw_text)
    /\ norm_result.arg = <<"R", "T", "X", " ", "4", "0", "7", "0", " ", "T", "U+0131">>

\* A text of blanks was refused without being quoted.
C23_WitnessBlank ==
    /\ norm_result # NoCall
    /\ raw_text # <<>>
    /\ IsBlank(raw_text)
    /\ norm_result.status = "error"
    /\ norm_result.arg = <<>>

\* A listing with brand and chipset and without a VRAM size.
C23_WitnessVram ==
    /\ norm_result # NoCall
    /\ HasBrand(raw_text) /\ HasChipset(raw_text) /\ ~HasVram(raw_text)
    /\ norm_result.status = "error"
    /\ norm_result.msg = "Failed to extract VRAM from: {name}"
\* ---------------------------------------------------------------------------
\* The chipset written without its prefix.

RECURSIVE ListingText(_, _)
\* The text of the fragments from the i-th on, the numeral-only chipset
\* preceded by `prefix`.
ListingText(i, prefix) ==
    IF i > Len(used) THEN <<>>
    ELSE (IF Fragments[used[i]].role = "numeral" THEN prefix ELSE <<>>)
             \o Fragments[used[i]].text \o ListingText(i + 1, prefix)

\* A brand, a chipset in its numeral-only form and a VRAM size, in any order.
NumeralListing == Len(used) = 3 /\ Roles = {"brand", "numeral", "vram"}

\* C24: each of the four chipset variants is recognized in its numeral-only
\* form: for every brand and VRAM, the text with the prefix RTX left out
\* normalizes, and to the chipset of the text with the prefix.
C24_NumeralFormRecognized ==
    norm_result # NoCall /\ NumeralListing =>
        /\ raw_text = ListingText(1, <<>>)
        /\ normalize(ListingText(1, <<"R", "T", "X", " ">>)).status = "ok"
        /\ norm_result.status = "ok"
        /\ norm_result.chipset = normalize(ListingText(1, <<"R", "T", "X", " ">>)).chipset

\* The numeral-only forms with a suffix are recognized.
C24_SuffixedNumeralRecognized ==
    (/\ norm_result # NoCall
     /\ NumeralListing
     /\ FragmentOf("numeral").value # RTX_4070_VARIANTS[4]) =>
        /\ norm_result.status = "ok"
        /\ norm_result.chipset = normalize(ListingText(1, <<"R", "T", "X", " ">>)).chipset
        /\ norm_result.chipset = FragmentOf("numeral").value
\* ---------------------------------------------------------------------------
\* Several brands in one text.

\* The b-th brand of the lexicon stands at position i of the text as a token.
BrandAt(s, i, b) ==
    /\ OccursAt(s, i, BRANDS[b][1])
    /\ Delimited(s, i, i + Len(BRANDS[b][1]) - 1)

\* The canonical English name of the b-th brand of the lexicon.
CanonicalBrand(b) ==
    CASE b = 4 -> BRANDS[3][1]
      [] b = 7 -> BRANDS[6][1]
      [] b = 10 -> BRANDS[11][1]
      [] OTHER -> BRANDS[b][1]

\* The text holds tokens of two different brands.
TwoBrands(s) ==
    \E i \in 1..Len(s), b \in 1..Len(BRANDS) :
        /\ BrandAt(s, i, b)
        /\ \E j \in 1..Len(s), c \in 1..Len(BRANDS) :
               BrandAt(s, j, c) /\ CanonicalBrand(b) # CanonicalBrand(c)

\* C25 as stated: of several brand tokens in the text the one that comes
\* first in the lexicon wins, wherever the tokens stand.
C25_Original ==
    norm_result # NoCall /\ norm_result.status = "ok" =>
        \E i \in 1..Len(raw_text), b \in 1..Len(BRANDS) :
            /\ BrandAt(raw_text, i, b)
            /\ norm_result.brand = CanonicalBrand(b)
            /\ \A j \in 1..Len(raw_text), c \in 1..Len(BRANDS) :
                   BrandAt(raw_text, j, c) => b <= c

\* The brand returned for the token of the b-th brand at position i: its
\* canonical English name, and the token in upper case when it is written
\* with a dotted capital I or a Kelvin sign, which are their own upper case.
BrandReturned(s, i, b) ==
    LET token == SubSeq(s, i, i + Len(BRANDS[b][1]) - 1)
    IN  IF \E k \in 1..Len(token) : token[k] \in {DottedI, KelvinSign} THEN UpperStr(token)
        ELSE CanonicalBrand(b)

\* C25: of several brand tokens in the text the one that stands first in
\* the text wins, whatever its place in the lexicon; an alias is returned
\* as its canonical English brand, and a token written with a dotted
\* capital I or a Kelvin sign as it is written, in upper case.
C25_LeftmostBrandWins ==
    norm_result # NoCall /\ norm_result.status = "ok" =>
        /\ \E i \in 1..Len(raw_text), b \in 1..Len(BRANDS) :
               /\ BrandAt(raw_text, i, b)
               /\ norm_result.brand = BrandReturned(raw_text, i, b)
               /\ \A j \in 1..Len(raw_text), c \in 1..Len(BRANDS) :
                      BrandAt(raw_text, j, c) => i <= j
        /\ \A k \in 1..Len(norm_result.brand) : ~IsHangul(norm_result.brand[k])

\* PALIT stands in the text before ASUS, which is first in the lexicon.
C25_Witness ==
    /\ norm_result # NoCall
    /\ norm_result.status = "ok"
    /\ TwoBrands(raw_text)
    /\ norm_result.brand = BRANDS[6][1]
    /\ \E j \in 1..Len(raw_text) : BrandAt(raw_text, j, 1)

\* The alias of GIGABYTE stands before PALIT.
C25_WitnessAlias ==
    /\ norm_result # NoCall
    /\ norm_result.status = "ok"
    /\ \E j \in 1..Len(raw_text) : BrandAt(raw_text, j, 4)
    /\ TwoBrands(raw_text)
    /\ norm_result.brand = BRANDS[3][1]
\* ---------------------------------------------------------------------------
\* The model descriptor.

\* The text holds the fragment somewhere, in any case.
Holds(s, fragment) ==
    fragment # <<>> /\ \E i \in 1..Len(s) : OccursAt(s, i, fragment)

\* What a search matched in the text, its blanks normalized as those of the
\* descriptor are; <<>> when it matched nothing.
MatchedBy(s, alts) ==
    IF Search(s, alts, TRUE) = NoMatch THEN <<>>
    ELSE Join(Split(Group(s, Search(s, alts, TRUE))))

\* The fragments of the text that were matched as brand, chipset, VRAM,
\* overclock token, memory type and GPU family.
MatchedFragments(s) ==
    {MatchedBy(s, BRANDS), MatchedBy(s, ChipsetPatterns),
     MatchedBy(s, OcPatterns), MatchedBy(s, MemoryTypePatterns),
     MatchedBy(s, GpuFamilyPatterns),
     Join(Split(SubSeq(s, SearchVramFrom(s, 1).start, SearchVramFrom(s, 1).end - 1)))}

\* C26: unless the descriptor is the original raw text, it holds none of the
\* fragments matched as brand (also an alias), as chipset (also numeral-only
\* or with several blanks), as VRAM, as overclock token, as memory type or
\* as GPU family.
C26_DescriptorWithoutMatchedFragments ==
    (/\ norm_result # NoCall
     /\ norm_result.status = "ok"
     /\ norm_result.model_name # raw_text) =>
        \A fragment \in MatchedFragments(raw_text) :
            ~Holds(norm_result.model_name, fragment)

\* The descriptor holds none of the matched fragments when the brand is
\* written in its canonical form and the chipset with its prefix and single
\* blanks.
C26_CanonicalFragmentsRemoved ==
    (/\ norm_result # NoCall
     /\ norm_result.status = "ok"
     /\ norm_result.model_name # raw_text
     /\ LowerStr(MatchedBy(raw_text, BRANDS)) = LowerStr(norm_result.brand)
     /\ LowerStr(Group(raw_text, Search(raw_text, ChipsetPatterns, TRUE)))
            = LowerStr(norm_result.chipset)) =>
        \A fragment \in MatchedFragments(raw_text) :
            ~Holds(norm_result.model_name, fragment)
\* ---------------------------------------------------------------------
\* The core operations neither write to the store nor remember anything.
\* ---------------------------------------------------------------------

\* The operations of the core that read the catalog, the price history or the
\* mention store.
CoreOps == {"find_matching_sku", "find_similar_skus", "match_or_suggest", "batch_match", "calculate_price_change", "get_price_history", "has_sufficient_data", "analyze_keyword_frequency", "calculate_sentiment_score", "calculate_risk_index", "calculate_risk_with_sentiment", "calculate_risk_for_all_skus", "get_contributing_factors"}

\* A step in which one of the core operations returns, or runs a query of
\* a call that has not returned yet.
CoreStepped ==
    \/ ret' # ret /\ ret' # NoCall /\ ret'.op \in CoreOps
    \/ match_job' # match_job

\* A step in which the call that returned last is made again and returns:
\* by Callable the same method with the same arguments, and nothing was
\* stored, and no day has passed, since it returned the first time.
CallRepeated == ret # NoCall /\ ret' # NoCall /\ ret'.op \in CoreOps

\* No operation of the core writes to the catalog, the price history or the
\* mention store.
C27_ReadOnly ==
    [][/\ CoreStepped => UNCHANGED <<storeVars, signals, alertVars>>
       /\ norm_result' # norm_result /\ norm_result' # NoCall
              => UNCHANGED <<storeVars, signals, alertVars, raw_text>>]_vars

\* Every operation of the core but get_price_history returns the same
\* result when the call is repeated.
C27_RepeatableButHistory ==
    [][/\ CallRepeated /\ ret'.op # "get_price_history" => ret' = ret
       /\ norm_result # NoCall /\ norm_result' # NoCall => norm_result' = norm_result]_vars

C27_HistoryOfTiedRows ==
    /\ ret # NoCall /\ ret.op = "get_price_history" /\ ret.status = "ok"
    /\ Len(ret.value) = 2
    /\ ret.value[1][1] = ret.value[2][1]
    /\ ret.value[1][2] # ret.value[2][2]

\* A price change is computed for an entry that has a price history, a
\* catalog and mentions being stored.
C27_Witness ==
    /\ ret # NoCall /\ ret.op = "calculate_price_change" /\ ret.status = "ok"
    /\ \E log \in price_logs : log.sku_id = ret.sku_id
    /\ skus # {} /\ market_signals # {}

\* The risk of every entry is asked for over stored prices and mentions.
C27_WitnessBatch ==
    /\ ret # NoCall /\ ret.op = "calculate_risk_for_all_skus"
    /\ price_logs # {} /\ market_signals # {}
\* ---------------------------------------------------------------------
\* The sufficiency probe and the baseline error.
\* ---------------------------------------------------------------------

\* The price rows of an entry, and the age in ticks of its earliest one.
RowsOf(sku_id) == {row \in price_logs : row.sku_id = sku_id}

EarliestAge(sku_id) ==
    now - (CHOOSE t \in {row.recorded_at : row \in RowsOf(sku_id)} :
               \A row \in RowsOf(sku_id) : t <= row.recorded_at)

\* calculate_price_change, and calculate_risk_index, raise
\* InsufficientDataError for the entry and the price.
BaselineMissing(sku_id, price) ==
    calculate_price_change_during(outage, price_logs, now, sku_id, price) = Raised("calculate_price_change", "InsufficientDataError")

RiskBaselineMissing(sku_id, price, m) ==
    calculate_risk_index_during(outage, price_logs, now, sku_id, price, m) = Raised("calculate_risk_index", "InsufficientDataError")

\* has_sufficient_data(sku_id, 7)
Probe(sku_id) == has_sufficient_data(outage, price_logs, now, sku_id, 7).value

PositivePrices == {price \in OfferedPrices : price > 0}

\* C28 as stated: for every store, clock and positive price the two
\* operations raise InsufficientDataError if and only if
\* has_sufficient_data(sku_id, 7) is false.
C28_Original ==
    outage = {} =>
        \A sku_id \in CalledSkuIds, price \in PositivePrices, m \in Mentions :
            /\ BaselineMissing(sku_id, price) <=> ~Probe(sku_id)
            /\ RiskBaselineMissing(sku_id, price, m) <=> ~Probe(sku_id)

\* C28, amended: the two operations raise InsufficientDataError exactly
\* when the entry has no observation recorded 6 to 8 days ago, and
\* has_sufficient_data(sku_id, 7) is true exactly when the entry's earliest
\* observation is at least 7 days old; the probe and the error agree when
\* the earliest observation is 7 to 8 days old or when no observation is
\* 6 days old or older, and they differ for an entry whose earliest
\* observation is 6 days old and for an entry observed only more than
\* 8 days ago.
C28_WindowDecidesTheError ==
    outage = {} =>
        \A sku_id \in CalledSkuIds, price \in PositivePrices, m \in Mentions :
            /\ BaselineMissing(sku_id, price) <=> BaselineWindow(sku_id) = {}
            /\ RiskBaselineMissing(sku_id, price, m) <=> BaselineWindow(sku_id) = {}
            /\ Probe(sku_id) <=> RowsOf(sku_id) # {} /\ EarliestAge(sku_id) >= Days(7)
            /\ RowsOf(sku_id) # {} /\ EarliestAge(sku_id) \in Days(7)..Days(8) =>
                   Probe(sku_id) /\ ~BaselineMissing(sku_id, price)
            /\ RowsOf(sku_id) = {} \/ EarliestAge(sku_id) < Days(6) =>
                   ~Probe(sku_id) /\ BaselineMissing(sku_id, price)
            /\ RowsOf(sku_id) # {} /\ EarliestAge(sku_id) \in Days(6)..(Days(7) - 1) =>
                   ~Probe(sku_id) /\ ~BaselineMissing(sku_id, price)
            /\ RowsOf(sku_id) # {} /\ (\A row \in RowsOf(sku_id) : now - row.recorded_at > Days(8)) =>
                   Probe(sku_id) /\ BaselineMissing(sku_id, price)

\* The price change of an entry observed only nine days ago is asked for
\* and refused, the probe answering that the data is sufficient.
C28_Witness ==
    /\ ret # NoCall /\ ret.op = "calculate_price_change"
    /\ ret.status = "error" /\ ret.error = "InsufficientDataError"
    /\ ret.current_price > 0
    /\ RowsOf(ret.sku_id) # {}
    /\ \A row \in RowsOf(ret.sku_id) : now - row.recorded_at > Days(8)
    /\ Probe(ret.sku_id)

\* The price change of an entry first observed six days ago is computed,
\* the probe answering that the data is not sufficient.
C28_WitnessSixDays ==
    /\ ret # NoCall /\ ret.op = "calculate_price_change" /\ ret.status = "ok"
    /\ EarliestAge(ret.sku_id) = Days(6)
    /\ ~Probe(ret.sku_id)

\* The probe is asked about an entry first observed exactly seven days ago.
C28_WitnessProbe ==
    /\ ret # NoCall /\ ret.op = "has_sufficient_data" /\ ret.required_days = 7
    /\ ret.value
    /\ RowsOf(ret.sku_id) # {} /\ EarliestAge(ret.sku_id) = Days(7)
(***************************************************************************)
(* ETLPipeline.generate_risk_alerts (src/etl/main.py) and the alert loader *)
(* (src/etl/loaders/db_loader.py).                                         *)
(*                                                                         *)
(* The job computes the risk of every entry with one call of               *)
(* calculate_risk_for_all_skus and then, for each high-risk entry, reads   *)
(* the product row and the latest price, reads the mention totals, asks    *)
(* get_contributing_factors for the breakdown and inserts the alert.  The  *)
(* call comes first, and what it raises ends the job.                      *)
(***************************************************************************)

\* The two recommendations of _format_alert_message, and the reasons
\* generate_risk_alerts puts into the factors, in English.
ImmediateDisposalReview == "immediate disposal review"
StrengthenMonitoring == "strengthen monitoring"
ReasonDropAndRumours == "price drop + new release rumours rising"
ReasonSharpDrop == "sharp price drop"
ReasonRumoursSurge == "new release rumours surging"
ReasonRiskDetected == "inventory risk detected"

\* The parts the message has for the keys of factors, in the order of the code.
RECURSIVE FactorParts(_, _)
FactorParts(factors, keys) ==
    IF keys = <<>> THEN <<>>
    ELSE (IF Head(keys) \in DOMAIN factors
          THEN <<(<<Head(keys), factors[Head(keys)]>>)>> ELSE <<>>)
         \o FactorParts(factors, Tail(keys))

\* The float of h hundredths: the double nearest to h / 100, which is what
\* round(x, 2) returns and what a decimal literal of the settings reads as.
FloatOfHundredths(h) == FloatOp(Float(h), "/", Float(100))

\* The double 1.5, 3 * 2^-1.
Float15 == [neg |-> FALSE, m |-> <<3>>, e |-> -1]

\* x > y for doubles x and y
FloatGreater(x, y) ==
    LET difference == Exact("-", x, y)
    IN  difference.p # <<>> /\ ~difference.neg

\* risk_index > threshold * 1.5, the product a double of its own: at
\* 0.45 against 0.30 it is 0.44999999999999996 and the test is true.
ExceedsOneAndAHalf(risk_index, limit) ==
    FloatGreater(FloatEval(FloatOfHundredths(risk_index)),
                 FloatEval(FloatOp(FloatOfHundredths(limit), "*",
                                   [op |-> "double", value |-> Float15])))

\* _format_alert_message(product_name, risk_index, threshold, factors): the
\* parts of the message, which the code joins with " | ".  risk_index and
\* limit are the floats of that many hundredths; two such floats compare
\* as their hundredths do.
_format_alert_message(product_name, risk_index, limit, factors) ==
    <<(<<"product", product_name>>), (<<"risk_index", risk_index, limit>>)>>
    \o FactorParts(factors, <<"price_change_pct", "new_release_mentions", "sentiment_score", "reason">>)
    \o (IF ExceedsOneAndAHalf(risk_index, limit)
        THEN <<(<<"recommendation", ImmediateDisposalReview>>)>>
        ELSE IF risk_index > limit THEN <<(<<"recommendation", StrengthenMonitoring>>)>>
        ELSE <<>>)

\* insert_risk_alert(sku_id, product_name, risk_index, threshold,
\* contributing_factors): the row inserted, with the message logged for it.
insert_risk_alert(alerts, sku_id, product_name, risk_index, limit, contributing_factors) ==
    Append(alerts,
           [sku_id |-> sku_id, risk_index |-> risk_index, threshold |-> limit,
            contributing_factors |-> contributing_factors, acknowledged |-> FALSE,
            alert_message |-> _format_alert_message(product_name, risk_index, limit,
                                                    contributing_factors)])

\* The reason generate_risk_alerts adds to the factors.
AlertReason(factors, total_mentions) ==
    LET price_change_pct == IF "price_change_pct" \in DOMAIN factors
                            THEN factors.price_change_pct ELSE 0
    IN  IF price_change_pct < -500 /\ total_mentions > 10 THEN ReasonDropAndRumours
        ELSE IF price_change_pct < -500 THEN ReasonSharpDrop
        ELSE IF total_mentions > 10 THEN ReasonRumoursSurge
        ELSE ReasonRiskDetected

\* SELECT price FROM price_logs WHERE sku_id = %s ORDER BY recorded_at DESC
\* LIMIT 1, and float(price_result[0]) if price_result else 0.0: the prices
\* the read may give, two sources at the latest instant leaving two.
latest_price(logs, sku_id) ==
    LET rows == {row \in logs : row.sku_id = sku_id}
    IN  IF rows = {} THEN {0}
        ELSE {row.price : row \in {r \in rows : \A other \in rows :
                                                   other.recorded_at <= r.recorded_at}}

\* The reason is added to the factors and the alert inserted.
alert_with_reason(alerts, sku_id, product_name, risk_index, limit, factors, total_mentions) ==
    insert_risk_alert(alerts, sku_id, product_name, risk_index, limit,
                      [reason |-> AlertReason(factors, total_mentions)] @@ factors)

\* The alert of an entry whose product row and mention totals were read.
alert_of_product(failing, logs, clock, limit, alerts, sku_id, row, risk_index, current_price, total_mentions) ==
    alert_with_reason(alerts, sku_id,
        row.brand \o <<" ">> \o row.chipset \o <<" ">> \o row.model_name,
        risk_index, limit,
        get_contributing_factors(failing, logs, clock, limit, sku_id, current_price,
                                 total_mentions).value,
        total_mentions)

\* error_msg = f"Failed to generate alert for SKU {sku_id}: {e}", appended
\* to stats['errors'].
AlertFailure(sku_id, error) ==
    [message |-> "Failed to generate alert for SKU", sku_id |-> sku_id, error |-> error]

\* error_msg = f"Failed to calculate risk indices: {e}"
RiskFailure(error) == [message |-> "Failed to calculate risk indices", error |-> error]

\* The body of the loop of generate_risk_alerts for a high-risk entry whose
\* latest price was read as current_price: the alerts and the recorded
\* errors after it, `at` being those before it.  An entry without product
\* row is passed over; when get_new_release_mentions or insert_risk_alert
\* raises, the error is recorded and the loop goes on.
alert_generated(failing, catalog, logs, table, clock, limit, at, sku_id, risk_index, current_price) ==
    LET result == {row \in catalog : row.id = sku_id}
        new_release_mentions == get_new_release_mentions(failing, table, clock, 7)
    IN  IF result = {} THEN at
        ELSE IF new_release_mentions.status = "error"
        THEN [at EXCEPT !.failed = Append(@, AlertFailure(sku_id, new_release_mentions.error))]
        ELSE IF "insert_risk_alert" \in failing
        THEN [at EXCEPT !.failed = Append(@, AlertFailure(sku_id, "LoaderError"))]
        ELSE [at EXCEPT !.risk_alerts =
                  alert_of_product(failing, logs, clock, limit, @, sku_id,
                                   CHOOSE row \in result : TRUE, risk_index, current_price,
                                   SumValues(new_release_mentions.value))]

RECURSIVE alerts_generated(_, _, _, _, _, _, _, _, _)
\* for sku_id, (risk_index, is_high_risk) in risk_results.items():
\*     if is_high_risk: ...
\* The alerts and recorded errors the loop may leave over the high-risk
\* entries `pending`, taken in the order the batch put them into the map.
alerts_generated(failing, catalog, logs, table, clock, limit, at, risk_results, pending) ==
    IF pending = {} THEN {at}
    ELSE UNION {UNION {alerts_generated(failing, catalog, logs, table, clock, limit,
                           alert_generated(failing, catalog, logs, table, clock, limit,
                                           at, sku_id, risk_results[sku_id][1],
                                           current_price),
                           risk_results, pending \ {sku_id}) :
                          current_price \in latest_price(logs, sku_id)} :
                   sku_id \in pending}

\* What the job leaves when calculate_risk_for_all_skus(days=7) came back
\* with risk_results: the alerts and stats['errors'], which holds the
\* exception recorded as "Failed to calculate risk indices" when the call
\* raised and otherwise one "Failed to generate alert for SKU" for each
\* entry whose alert raised.
alerts_for_results(failing, catalog, logs, table, clock, limit, alerts, risk_results) ==
    IF risk_results.status = "error"
    THEN {[risk_alerts |-> alerts, failed |-> <<RiskFailure(risk_results.error)>>]}
    ELSE alerts_generated(failing, catalog, logs, table, clock, limit,
                          [risk_alerts |-> alerts, failed |-> <<>>],
                          risk_results.value,
                          {sku_id \in DOMAIN risk_results.value :
                               risk_results.value[sku_id][2]})

\* ETLPipeline.generate_risk_alerts(): what the job may leave.
generate_risk_alerts(failing, catalog, logs, table, clock, limit, alerts) ==
    UNION {alerts_for_results(failing, catalog, logs, table, clock, limit, alerts,
                              risk_results) :
              risk_results \in calculate_risk_for_all_skus(failing, logs, table, clock,
                                                           limit, 7)}

\* ETLPipeline.generate_risk_alerts(): stats['alerts_generated'] grows by
\* the alerts inserted, stats['errors'] by what was recorded.
GenerateRiskAlerts ==
    /\ \E after \in generate_risk_alerts(outage, products, price_logs, market_signals, now,
                                          threshold, risk_alerts) :
           /\ risk_alerts' = after.risk_alerts
           /\ ret' = Returned("generate_risk_alerts",
                         [alerts_generated |-> Len(after.risk_alerts) - Len(risk_alerts),
                          errors |-> after.failed])
    /\ UNCHANGED <<jobVars, normVars, signals, storeVars>>

\* One pass of the loop of insert_risk_alerts_batch, or the one insert of
\* insert_risk_alert: a transaction of its own; a failure is raised as
\* LoaderError and leaves the rest of the batch out.
InsertOneRiskAlert(op, todo) ==
    LET failed == "insert_risk_alert" \in outage
    IN  /\ risk_alerts' = IF failed THEN risk_alerts
                           ELSE insert_risk_alert(risk_alerts, Head(todo).sku_id,
                                    Head(todo).product_name, Head(todo).risk_index,
                                    Head(todo).threshold, Head(todo).contributing_factors)
        /\ price_job' = IF failed \/ Len(todo) = 1 THEN NoJob
                         ELSE [op |-> op, pc |-> "insert", todo |-> Tail(todo)]
        /\ ret' = IF failed THEN Raised(op, "LoaderError") ELSE NoCall

\* insert_risk_alert(sku_id, product_name, risk_index, threshold,
\* contributing_factors)
InsertRiskAlert(alert) ==
    /\ price_job = NoJob
    /\ InsertOneRiskAlert("insert_risk_alert", <<alert>>)
    /\ UNCHANGED <<signal_job, match_job, normVars, signals, storeVars>>

\* insert_risk_alerts_batch(alerts) is called and inserts its first alert.
InsertRiskAlertsBatch(alerts) ==
    /\ price_job = NoJob
    /\ alerts # <<>>
    /\ InsertOneRiskAlert("insert_risk_alerts_batch", alerts)
    /\ UNCHANGED <<signal_job, match_job, normVars, signals, storeVars>>

\* The running insert_risk_alerts_batch inserts its next alert.
InsertNextRiskAlert ==
    /\ price_job # NoJob
    /\ price_job.op = "insert_risk_alerts_batch"
    /\ InsertOneRiskAlert(price_job.op, price_job.todo)
    /\ UNCHANGED <<signal_job, match_job, normVars, signals, storeVars>>

MaxAlertDay == 7
MaxAlertLogs == 2
MaxAlerts == 2
AlertSkuIds == {1}
AlertThresholds == {risk_threshold, -10000}
AlertPrices == {950000, 1000000}

\* The risk indices alerts are asked for: far below both thresholds, and
\* 1.2 times the threshold on either side of zero.
AlertIndices == {-5000000, -12000, 12000}

\* Risk index and threshold, in hundredths, with the index at exactly 1.5
\* times the threshold, where the double threshold * 1.5 is not the exact
\* product: 0.45 against 0.30 and -0.15 against -0.10.
AlertTies == {<<45, 30>>, <<-15, -10>>}

\* The alert of the product of the catalog with the factors and their
\* reason, as generate_risk_alerts passes it to insert_risk_alert.
AlertAsked(risk_index, limit) ==
    [sku_id |-> 1,
     product_name |-> SampleProduct.brand \o <<" ">> \o SampleProduct.chipset
                          \o <<" ">> \o SampleProduct.model_name,
     risk_index |-> risk_index, threshold |-> limit,
     contributing_factors |-> [price_change_pct |-> -500, new_release_mentions |-> 0,
                               reason |-> ReasonRiskDetected]]

\* The alerts the loader is called with: the calculator's threshold with
\* each of the indices, and the ties.
AlertsAsked ==
    {AlertAsked(risk_index, threshold) : risk_index \in AlertIndices}
        \cup {AlertAsked(tie[1], tie[2]) : tie \in AlertTies}

\* The pipeline with the configured threshold, or with the threshold of the
\* calculator's tests.
AlertInit ==
    /\ IdleNormalizer
    /\ signals = <<>>
    /\ now = 0
    /\ price_logs = {}
    /\ market_signals = {}
    /\ threshold \in AlertThresholds
    /\ products = {}
    /\ skus = {}
    /\ outage = {}
    /\ ret = NoCall
    /\ risk_alerts = <<>>
    /\ signal_job = NoJob
    /\ price_job = NoJob
    /\ match_job = NoJob

AlertNext ==
    \/ products = {} /\ price_logs = {} /\ risk_alerts = <<>> /\ UpsertProduct(SampleProduct)
    \/ price_job = NoJob /\ outage = {} /\ DateOf(now) < MaxAlertDay /\ NextDay
    \/ \E sku_id \in AlertSkuIds, price \in AlertPrices :
           /\ outage = {} /\ risk_alerts = <<>>
           /\ LogsWithin(<<sku_id>>, PriceData(Danawa, price, now), MaxAlertLogs)
           /\ LoadPrices(<<PriceData(Danawa, price, now)>>, SkuMapping(<<sku_id>>))
    \/ LoadNextPrice
    \/ \E signal \in BatchSignalsAt(now) :
           /\ outage = {} /\ risk_alerts = <<>>
           /\ Cardinality(insert_market_signal(market_signals, signal)) <= MaxBatchRows
           /\ \A row \in insert_market_signal(market_signals, signal) :
                  row.mention_count <= MaxBatchCount
           /\ LoadMarketSignals(<<signal>>)
    \/ price_job = NoJob /\ GenerateRiskAlerts
    \/ \E alert \in AlertsAsked :
           /\ price_logs = {} /\ market_signals = {}
           /\ Len(risk_alerts) < MaxAlerts
           /\ InsertRiskAlert(alert)
    \/ \E first, second \in AlertsAsked :
           /\ price_logs = {} /\ market_signals = {}
           /\ risk_alerts = <<>>
           /\ InsertRiskAlertsBatch(<<first, second>>)
    \/ InsertNextRiskAlert
    \/ price_logs = {} /\ market_signals = {} /\ price_job = NoJob /\ StorageFails({"insert_risk_alert"})
    \/ StorageRecovers

SpecAlerts == AlertInit /\ [][AlertNext]_vars

(***************************************************************************)
(* The loaders of src/etl/loaders/db_loader.py and of the pipeline, called *)
(* by runs that share the store: every statement commits on its own, and   *)
(* a statement of one run may commit between two statements of another.    *)
(***************************************************************************)
\* insert_price_log(sku_id, price_data): one statement in a transaction of
\* its own; a failure is raised as LoaderError.
InsertPriceLog(sku_id, price_data) ==
    /\ price_logs' = IF "insert_price_log" \in outage THEN price_logs
                      ELSE insert_price_log(price_logs, sku_id, price_data)
    /\ ret' = IF "insert_price_log" \in outage
              THEN Raised("insert_price_log", "LoaderError") ELSE NoCall
    /\ UNCHANGED <<jobVars, alertVars, normVars, signals, now, market_signals, threshold,
                   products, skus, outage>>

\* One pass of the loop of insert_price_logs_batch: the first failing
\* insert ends the batch with LoaderError, the rows before it staying
\* stored.
InsertOnePriceLog(sku_id, todo) ==
    LET failed == "insert_price_log" \in outage
    IN  /\ price_logs' = IF failed THEN price_logs
                          ELSE insert_price_log(price_logs, sku_id, Head(todo))
        /\ price_job' = IF failed \/ Len(todo) = 1 THEN NoJob
                         ELSE [op |-> "insert_price_logs_batch", pc |-> "insert",
                               sku_id |-> sku_id, todo |-> Tail(todo)]
        /\ ret' = IF failed THEN Raised("insert_price_logs_batch", "LoaderError")
                  ELSE NoCall

\* insert_price_logs_batch(sku_id, price_logs) is called and inserts its
\* first row.
InsertPriceLogsBatch(sku_id, batch) ==
    /\ price_job = NoJob
    /\ batch # <<>>
    /\ InsertOnePriceLog(sku_id, batch)
    /\ UNCHANGED <<signal_job, match_job, alertVars, normVars, signals, now, market_signals, threshold,
                   products, skus, outage>>

\* The running insert_price_logs_batch inserts its next row.
InsertNextPriceLog ==
    /\ price_job # NoJob
    /\ price_job.op = "insert_price_logs_batch"
    /\ InsertOnePriceLog(price_job.sku_id, price_job.todo)
    /\ UNCHANGED <<signal_job, match_job, alertVars, normVars, signals, now, market_signals, threshold,
                   products, skus, outage>>

\* One pass of the loop `for product in products: upsert_product(product)`
\* that ETLPipeline.load_products and upsert_products_batch share.  When
\* the statement fails the pipeline's loader records the error and goes on
\* with the next product, while upsert_products_batch raises LoaderError
\* and leaves the rest out; it returns the ids in the order of the list.
UpsertOneProduct(op, todo, sku_ids) ==
    LET failed == "upsert_product" \in outage
        stops == failed /\ op = "upsert_products_batch"
        ids == IF failed THEN sku_ids
               ELSE Append(sku_ids, upserted_id(products, Head(todo)))
    IN  /\ products' = IF failed THEN products ELSE upsert_product(products, Head(todo))
        /\ price_job' = IF stops \/ Len(todo) = 1 THEN NoJob
                         ELSE [op |-> op, pc |-> "upsert", todo |-> Tail(todo),
                               sku_ids |-> ids]
        /\ ret' = IF stops THEN Raised(op, "LoaderError")
                  ELSE IF Len(todo) = 1 /\ op = "upsert_products_batch"
                  THEN Returned(op, ids)
                  ELSE NoCall

\* ETLPipeline.load_products(products) is called and loads its first
\* product.
LoadProducts(product_list) ==
    /\ price_job = NoJob
    /\ product_list # <<>>
    /\ UpsertOneProduct("load_products", product_list, <<>>)
    /\ UNCHANGED <<signal_job, match_job, alertVars, normVars, signals, now, price_logs, market_signals,
                   threshold, skus, outage>>

\* upsert_products_batch(products) is called and upserts its first product.
UpsertProductsBatch(product_list) ==
    /\ price_job = NoJob
    /\ product_list # <<>>
    /\ UpsertOneProduct("upsert_products_batch", product_list, <<>>)
    /\ UNCHANGED <<signal_job, match_job, alertVars, normVars, signals, now, price_logs, market_signals,
                   threshold, skus, outage>>

\* The running product loader upserts its next product.
UpsertNextProduct ==
    /\ price_job # NoJob
    /\ price_job.op \in {"load_products", "upsert_products_batch"}
    /\ UpsertOneProduct(price_job.op, price_job.todo, price_job.sku_ids)
    /\ UNCHANGED <<signal_job, match_job, alertVars, normVars, signals, now, price_logs, market_signals,
                   threshold, skus, outage>>

MaxLoaderDay == 7
MaxLoaderLogs == 2
LoaderSkuIds == {1}
LoaderPrices == {950000, 1000000}

\* The products the loaders are called with: the product of the listing
\* the price crawler finds, and the same card sold without overclock.
LoaderProducts ==
    {NormalizedProduct(normalize(DualListing)),
     [NormalizedProduct(normalize(DualListing)) EXCEPT !.is_oc = FALSE]}

\* The PriceData a run holds for the listing today: one or two of them.
PriceDataLists ==
    {<<PriceData(source, price, now)>> : source \in Sources, price \in LoaderPrices}
        \cup {<<PriceData(Danawa, price, now), PriceData(Enuri, price, now)>> :
                  price \in LoaderPrices}

\* The rows of the batch stay within the bound.
BatchWithin(sku_id, batch, most) ==
    \A i \in 1..Len(batch) : LogsWithin(<<sku_id>>, batch[i], most - (Len(batch) - 1))

LoaderInit == IdleNormalizer /\ IdleAnalytics

LoaderNext ==
    \/ price_job = NoJob /\ outage = {} /\ DateOf(now) < MaxLoaderDay /\ NextDay
    \/ \E sku_id \in {<<>>} \cup {<<id>> : id \in LoaderSkuIds}, price_data_list \in PriceDataLists :
           /\ sku_id = <<>> => products = {}
           /\ Cardinality(price_logs) + Len(price_data_list) <= MaxLoaderLogs
           /\ LoadPrices(price_data_list, SkuMapping(sku_id))
    \/ LoadNextPrice
    \/ \E sku_id \in LoaderSkuIds, source \in Sources, price \in LoaderPrices, recorded_at \in {now - Days(7), now} :
           /\ recorded_at >= 0
           /\ LogsWithin(<<sku_id>>, PriceData(source, price, recorded_at), MaxLoaderLogs)
           /\ InsertPriceLog(sku_id, PriceData(source, price, recorded_at))
    \/ \E sku_id \in LoaderSkuIds, price_data_list \in PriceDataLists :
           /\ Len(price_data_list) = 2
           /\ BatchWithin(sku_id, price_data_list, MaxLoaderLogs)
           /\ InsertPriceLogsBatch(sku_id, price_data_list)
    \/ InsertNextPriceLog
    \/ \E product \in LoaderProducts : price_logs = {} /\ UpsertProduct(product)
    \/ \E first, second \in LoaderProducts :
           price_logs = {} /\ LoadProducts(<<first, second>>)
    \/ \E first, second \in LoaderProducts :
           price_logs = {} /\ UpsertProductsBatch(<<first, second>>)
    \/ UpsertNextProduct
    \/ \E failing \in LoadOutages \ {{}} : StorageFails(failing)
    \/ StorageRecovers

SpecLoaders == LoaderInit /\ [][LoaderNext]_vars

\* ---------------------------------------------------------------------
\* The alerts stored.
\* ---------------------------------------------------------------------

\* The recommendations in the message of an alert.
Recommendations(alert) ==
    {alert.alert_message[i][2] : i \in {j \in 1..Len(alert.alert_message) : alert.alert_message[j][1] = "recommendation"}}

HighRiskEntries ==
    {sku_id \in AlertSkuIds :
        /\ HasRecentObservation(sku_id)
        /\ BaselineWindow(sku_id) # {}
        /\ check_threshold(threshold,
               calculate_risk_index(price_logs, now, sku_id,
                   CHOOSE price \in MostRecentPrices(sku_id) : TRUE,
                   SumMentionCount(ReleaseRowsInWindow(7))).value)}

\* The alerts the job that returned last has produced: the last
\* alerts_generated rows of the table.
AlertsProduced ==
    {risk_alerts[i] : i \in (Len(risk_alerts) - ret.value.alerts_generated + 1)..Len(risk_alerts)}

\* C30: in every alert generate_risk_alerts has produced, the risk index
\* and the contributing factors describe one computation: the factors are
\* a breakdown, and its price delta and sentiment impact add up to the
\* risk index (to a hundredth), whatever the loaders stored while the job
\* ran.
C30_FactorsMatchRiskIndex ==
    Called("generate_risk_alerts") =>
        \A alert \in AlertsProduced :
            /\ "price_delta" \in DOMAIN alert.contributing_factors
            /\ Abs(alert.contributing_factors.price_delta
                       + alert.contributing_factors.sentiment_impact
                       - alert.risk_index) <= 1

\* No run of the job produces an alert: the failure of the batch is all it
\* records.
C30_NoAlertProduced ==
    Called("generate_risk_alerts") =>
        ret.value = [alerts_generated |-> 0, errors |-> <<RiskFailure("IndexError")>>]

\* The job has run over a high-risk entry of the catalog and has stored no
\* alert.
C30_JobFails ==
    /\ Called("generate_risk_alerts")
    /\ \E sku_id \in HighRiskEntries : \E row \in products : row.id = sku_id
    /\ risk_alerts = <<>>
    /\ ret.value.alerts_generated = 0
=============================================================================
